---- MODULE Spec2Model ----
(***************************************************************************)
(* A model of the keystore service of lit-keystore-moleculer:              *)
(*   - the ECIES encoder (lib/encoders/ECIESKeystore.ts),                  *)
(*   - the wrap / unwrap / transfer methods and the create orchestrator    *)
(*     (services/keystore.service.ts),                                     *)
(*   - the parameter validator of the access-controlled encoder            *)
(*     (lib/encoders/lit-protocol/LitEncoder.ts),                          *)
(*   - the cron mixin (lib/mixins/cron.mixin.ts).                          *)
(*                                                                         *)
(* Hex blobs (signatures, serialized ciphertexts, envelopes) are modelled  *)
(* as sequences of length-tagged chunks, so that String.slice at a         *)
(* character offset is computed and can cut a chunk in two.  Cryptography  *)
(* (eth-crypto, elliptic) is symbolic: a signature names its signer and    *)
(* the hash it signs, a ciphertext names the key it is encrypted for, its  *)
(* plaintext and the randomness of the run that made it.                   *)
(***************************************************************************)
EXTENDS Integers, Sequences, FiniteSets, TLC

VARIABLES
    authorizedProcessors, \* settings.authorizedProcessors, in insertion order
    svcStarted,           \* started() has run
    produced,             \* the envelopes the caller holds (two slots)
    out,                  \* the outcome of the last unwrap / transfer call
    vIn,                  \* the parameters last given to validateParameters
    vOut,                 \* what validateParameters returned or threw
    cr,                   \* the create calls: each call's parameters, locals and branches
    events,               \* the keystore.created events emitted, in order
    litHeap,              \* the objects and arrays of one Lit encoder: its template
                          \* and what its calls have made
    litTemplate,          \* that encoder's template as its constructor made it
    litOut,               \* what the encoder's last replaceConditionsParameters gave
    cronCreated,          \* the mixin's created() has run: this.jobs is a Map
    jobs,                 \* the keys of this.jobs, in insertion order
    wrappers,             \* the job wrapper made for each name, in or out of the Map
    ticks,                \* the scheduled ticks whose onTick or onComplete is awaited
    cronOp                \* the last call into the mixin, numbered, and what it gave

wrapVars == <<produced, out>>
svcVars  == <<authorizedProcessors, svcStarted>>
valVars  == <<vIn, vOut>>
crVars   == <<cr, events>>
subVars  == <<litHeap, litTemplate, litOut>>
cronVars == <<cronCreated, jobs, wrappers, ticks, cronOp>>
vars     == <<authorizedProcessors, svcStarted, produced, out, vIn, vOut, cr, events,
              litHeap, litTemplate, litOut, cronCreated, jobs, wrappers, ticks, cronOp>>

(***************************************************************************)
(* Value universes                                                         *)
(***************************************************************************)
Ids     == {1, 2}          \* key pairs (identities)
Kids    == {1, 2}          \* key identifiers
Ceks    == {1, 2}          \* 128-bit content keys, as byte strings
Formats == {"hex", "base64"}
Slots   == {1, 2}

\* a private key string: the key, and whether the string carries "0x"
PrivateKeys == [id : Ids, pfx : BOOLEAN]
Pk(i, p)    == [id |-> i, pfx |-> p]
NoPk        == [id |-> 0, pfx |-> FALSE]

\* a public key string: lead = number of characters before the 128 hex
\* characters of the curve point ("" / "04")
Pub(i, l)  == [owner |-> i, lead |-> l]
NoPub      == [owner |-> 0, lead |-> 0]      \* null / undefined

\* a text: what a key looks like as a string (which bytes, which encoding)
Str(k, e)  == [k |-> k, enc |-> e]
NoStr      == [k |-> 0, enc |-> ""]             \* no text (the call threw)
PubKeyHexLen == 128
SigHexLen    == 130

(***************************************************************************)
(* Chunked strings                                                         *)
(***************************************************************************)
Chunk(t, n, a, b, c, f) == [t |-> t, len |-> n, a |-> a, b |-> b, c |-> c, f |-> f]
Lit0x == Chunk("0x", 2, 0, 0, 0, "")
Frag(ch, n) == Chunk("frag", n, 0, 0, 0, "")

RECURSIVE StrLen(_)
StrLen(s) == IF s = <<>> THEN 0 ELSE Head(s).len + StrLen(Tail(s))

\* String.prototype.slice(0, n)
RECURSIVE Take(_, _)
Take(s, n) ==
    IF n <= 0 \/ s = <<>> THEN <<>>
    ELSE IF Head(s).len <= n THEN <<Head(s)>> \o Take(Tail(s), n - Head(s).len)
    ELSE <<Frag(Head(s), n)>>

\* String.prototype.slice(n)
RECURSIVE Drop(_, _)
Drop(s, n) ==
    IF s = <<>> THEN <<>>
    ELSE IF n <= 0 THEN s
    ELSE IF Head(s).len <= n THEN Drop(Tail(s), n - Head(s).len)
    ELSE <<Frag(Head(s), Head(s).len - n)>> \o Tail(s)

\* data.match(/^0x/)
StartsWith0x(s) == s # <<>> /\ Head(s) = Lit0x
removeLeading0x(s) == IF StartsWith0x(s) THEN Tail(s) ELSE s
(***************************************************************************)
(* eth-crypto / elliptic, symbolically                                     *)
(***************************************************************************)
\* hash.keccak256(kid): injective, and no kid is its own hash
Keccak(kid) == 1000 + kid

\* sign(privateKey, hash): "0x" + 65 bytes (r, s, v) in hex; deterministic
\* (RFC 6979); eth-crypto strips a leading 0x of the private key itself
Sign(privateKey, h) == <<Lit0x, Chunk("rsv", SigHexLen, privateKey.id, h, 0, "")>>

\* recover(sig, hash): the signer's address when sig is a whole signature over
\* hash; the address of an unknown key (0) when it is a whole signature over
\* another hash; -1 when the library throws (not 65 bytes)
Recover(sig, h) ==
    LET body == removeLeading0x(sig) IN
    IF Len(body) = 1 /\ body[1].t = "rsv" /\ body[1].len = SigHexLen
    THEN (IF body[1].b = h THEN body[1].a ELSE 0)
    ELSE -1

\* new ethers.Wallet(pk).address.toLowerCase()
AddressOf(privateKey) == privateKey.id

\* curve.keyFromPrivate(privateKey.slice(2)).getPublic("hex").slice(2):
\* slice(2) drops "0x"; of a key string without "0x" it drops two digits of
\* the key, and the public key is that of another key (-id), held by nobody
derivePublic(privateKey) ==
    IF privateKey.pfx THEN Pub(privateKey.id, 0) ELSE Pub(0 - privateKey.id, 0)

PubLen(pubKey) == PubKeyHexLen + pubKey.lead

\* as truncatePubKey, keeping the leading 128 characters: "04" and all but the
\* last two digits of the point, which is the point of no known key
truncatePubKeyLeading(pubKey) ==
    IF PubLen(pubKey) > PubKeyHexLen THEN Pub(0 - pubKey.owner, 0) ELSE pubKey

\* if (pubKey.length > 128) pubKey = pubKey.slice(pubKey.length - 128)
truncatePubKey(pubKey) ==
    IF PubLen(pubKey) > PubKeyHexLen THEN Pub(pubKey.owner, 0) ELSE pubKey

\* remoteKey ?? derived, then truncated
resolvePubKey(privateKey, remoteKey) ==
    truncatePubKey(IF remoteKey = NoPub THEN derivePublic(privateKey) ELSE remoteKey)

\* cipher.stringify(await encryptWithPublicKey(pubKey, text)): iv (16 bytes),
\* ephemeral public key (33), mac (32), AES-CBC ciphertext; nonce stands for
\* the run's randomness (iv, ephemeral key)
CipherLen(text) == IF text.enc = "hex" THEN 258 ELSE 226
Encrypt(pubKey, text, nonce) ==
    <<Chunk("cipher", CipherLen(text), pubKey.owner, text.k, nonce, text.enc)>>

\* cipher.parse(str): never throws; of anything but a whole serialization it
\* yields fields no key decrypts
CipherParse(s) ==
    IF Len(s) = 1 /\ s[1].t = "cipher" THEN s[1] ELSE Chunk("frag", StrLen(s), 0, 0, 0, "")

\* decryptWithPrivateKey(pk, cipher): NoStr when it throws (bad MAC)
Decrypt(privateKey, c) ==
    IF c.t = "cipher" /\ c.a = privateKey.id THEN Str(c.b, c.f) ELSE NoStr

\* Buffer.from(text, "hex"): the bytes of a hex text; of any other text the
\* bytes of its leading hex digits, not the key (0)
HexDecode(text) == IF text.enc = "hex" THEN text.k ELSE 0

\* Buffer.from(bytes).toString(format)
BufferToString(bytes, format) == Str(bytes, format)
(***************************************************************************)
(* ProtectionInput (lib/encoders/types.ts).  authority, ledger and rpc are *)
(* held as the name of a class of values: "absent" (undefined), "empty"    *)
(* (the empty string) or "ok"; ParamText below gives the text of a class.  *)
(* chainId 0 stands for an absent chainId.                                 *)
(***************************************************************************)
Protection(au, le, ch, rp) ==
    [present |-> TRUE, authority |-> au, ledger |-> le, chainId |-> ch, rpc |-> rp]
NoProtection ==
    [present |-> FALSE, authority |-> "absent", ledger |-> "absent", chainId |-> 0,
     rpc |-> "absent"]

(***************************************************************************)
(* ECIESKeystoreManager (lib/encoders/ECIESKeystore.ts)                    *)
(***************************************************************************)
ECIESParameters(privateKey, remoteKey, kid, format) ==
    [privateKey |-> privateKey, remoteKey |-> remoteKey, kid |-> kid, format |-> format]

\* as ECIESEnvelope, signing a hash of the kid and the key together
ECIESEnvelopeSigningKey(parameters, cek, nonce) ==
    LET hashedValue  == Keccak(10 * parameters.kid + cek)
        sig          == Sign(parameters.privateKey, hashedValue)
        pubKey       == resolvePubKey(parameters.privateKey, parameters.remoteKey)
        formattedKey == BufferToString(cek, parameters.format)
    IN  [sig |-> sig, pubKey |-> pubKey,
         keystore |-> sig \o Encrypt(pubKey, formattedKey, nonce)]

\* encode, lines 33-54 and the envelope of lines 58 and 70:
\* sig + cipher.stringify(keystore)
ECIESEnvelope(parameters, cek, nonce) ==
    LET hashedValue  == Keccak(parameters.kid)
        sig          == Sign(parameters.privateKey, hashedValue)
        pubKey       == resolvePubKey(parameters.privateKey, parameters.remoteKey)
        formattedKey == BufferToString(cek, parameters.format)
    IN  [sig |-> sig, pubKey |-> pubKey,
         keystore |-> sig \o Encrypt(pubKey, formattedKey, nonce)]

NoCall == [made |-> FALSE, ledger |-> "", contentId |-> 0, ipKey |-> <<>>]

\* pushToBlockchain + AuthorityGateway.registerIPWithKey.  reg is what the
\* chain answers: "ok", "rejected" (the submission throws) or "waitFailed"
\* (tx.wait() throws, which registerIPWithKey catches and only warns about).
\* new ethers.Contract(undefined, ...) throws before any call is made.
pushToBlockchain(kid, keystore, protection, reg) ==
    IF protection.authority \in {"absent", "empty"}
    THEN [threw |-> TRUE, call |-> NoCall]
    ELSE [threw |-> (reg = "rejected"),
          call  |-> [made |-> TRUE, ledger |-> protection.ledger, contentId |-> kid,
                     ipKey |-> keystore]]

NoEncoding ==
    [ok |-> FALSE, keystore |-> <<>>, systemId |-> "", hasProtectionData |-> FALSE,
     publicKey |-> NoPub, protection |-> NoProtection, call |-> NoCall]

ECIESEncode(parameters, cek, protection, reg, nonce) ==
    LET e    == ECIESEnvelope(parameters, cek, nonce)
        push == IF protection.present
                THEN pushToBlockchain(parameters.kid, e.keystore, protection, reg)
                ELSE [threw |-> FALSE, call |-> NoCall]
    IN  IF push.threw
        THEN [NoEncoding EXCEPT !.call = push.call]
        ELSE [ok |-> TRUE, keystore |-> e.keystore,
              systemId |-> IF protection.present THEN "CencDRM_V1" ELSE "",
              hasProtectionData |-> protection.present,
              publicKey |-> IF protection.present THEN e.pubKey ELSE NoPub,
              protection |-> protection, call |-> push.call]

(***************************************************************************)
(* keystore.service.ts: the AuthorizedProcessor map, encodeFor, unwrap      *)
(***************************************************************************)
hasProcessor(procs, addr) == \E i \in 1..Len(procs) : procs[i].addr = addr
processorKey(procs, addr) ==
    IF hasProcessor(procs, addr)
    THEN procs[CHOOSE i \in 1..Len(procs) : procs[i].addr = addr].pk
    ELSE NoPk

\* this.settings.authorizedProcessors[addr] = pk
setProcessor(procs, addr, privateKey) ==
    IF hasProcessor(procs, addr)
    THEN [i \in 1..Len(procs) |->
            IF procs[i].addr = addr THEN [addr |-> addr, pk |-> privateKey] ELSE procs[i]]
    ELSE Append(procs, [addr |-> addr, pk |-> privateKey])

\* the switch of encodeFor, lines 312-321
formatKey(key, format) ==
    IF format = "base64" THEN BufferToString(HexDecode(key), "base64url") ELSE key

encodeFor(privateKey, remoteKey, kid, key, format, nonce) ==
    LET hashedValue  == Keccak(kid)
        sig          == Sign(privateKey, hashedValue)
        pubKey       == resolvePubKey(privateKey, remoteKey)
        formattedKey == formatKey(key, format)
    IN  [pubKey |-> pubKey, sig |-> sig,
         raw |-> sig \o Encrypt(pubKey, formattedKey, nonce)]

\* as sigLength, without the look at the 0x prefix
sigLengthNoPrefix(data) == SigHexLen

sigLength(data) == IF StartsWith0x(data) THEN SigHexLen + 2 ELSE SigHexLen

\* as isAuthorized, with the check of the map left out
isAuthorizedAlways(procs, processorAddr) == TRUE

isAuthorized(procs, processorAddr) == processorKey(procs, processorAddr) # NoPk

\* unwrap, lines 337-360.  calls lists the library calls made, in order.
unwrap(procs, kid, data) ==
    LET siglen        == sigLength(data)
        sig           == Take(data, siglen)
        processorAddr == Recover(sig, Keccak(kid))
        fail(e, c, ca) == [ok |-> FALSE, err |-> e, code |-> c, kid |-> kid, key |-> NoStr,
                           guardian |-> 0, recovered |-> processorAddr, sig |-> sig,
                           calls |-> ca]
    IN  IF processorAddr = -1 THEN fail("RECOVER_THREW", 500, <<"recover">>)
        ELSE IF ~isAuthorized(procs, processorAddr)
        THEN fail("UNAUTHORIZED_PROCESSOR", 401, <<"recover">>)
        ELSE LET jsonKey == CipherParse(Drop(data, siglen))
                 pk      == processorKey(procs, processorAddr)
                 key     == Decrypt(pk, jsonKey)
             IN  IF key = NoStr
                 THEN fail("DECRYPT_THREW", 500, <<"recover", "parse", "decrypt">>)
                 ELSE [ok |-> TRUE, err |-> "", code |-> 0, kid |-> kid, key |-> key,
                       guardian |-> processorAddr, recovered |-> processorAddr,
                       sig |-> sig, calls |-> <<"recover", "parse", "decrypt">>]

NoEnvelope == [pubKey |-> NoPub, sig |-> <<>>, raw |-> <<>>]

\* the transfer action, lines 264-274
transfer(procs, kid, data, pubKey, format, nonce) ==
    LET u == unwrap(procs, kid, data) IN
    IF ~u.ok THEN [u |-> u, made |-> FALSE, e |-> NoEnvelope]
    ELSE [u |-> u, made |-> TRUE,
          e |-> encodeFor(processorKey(procs, u.guardian), pubKey, kid, u.key, format, nonce)]
(***************************************************************************)
(* LitKeystoreManager.validateParameters (lit-protocol/LitEncoder.ts).     *)
(* Parameter keys and values are texts: sequences of one-character         *)
(* strings, matched character by character as the regular expressions do.  *)
(***************************************************************************)
LowerHex  == {"a", "b", "c", "d", "e", "f"}
UpperHex  == {"A", "B", "C", "D", "E", "F"}
Digits    == {"0", "1", "2", "3", "4", "5", "6", "7", "8", "9"}
Letters   == LowerHex \cup UpperHex \cup
             {"g", "h", "i", "j", "k", "l", "m", "n", "o", "p", "q", "r", "s", "t", "u",
              "v", "w", "x", "y", "z", "G", "H", "I", "J", "K", "L", "M", "N", "O", "P",
              "Q", "R", "S", "T", "U", "V", "W", "X", "Y", "Z"}
HexDigits == LowerHex \cup UpperHex \cup Digits
\* the characters `.` does not match
LineEnds  == {"\n", "\r"}
Dangerous == {"\"", "'", "\\"}

AllIn(t, from, S) == \A i \in from..Len(t) : t[i] \in S
HasAny(t, S)      == \E i \in 1..Len(t) : t[i] \in S
Rep(c, n)         == [i \in 1..n |-> c]

\* /^[a-zA-Z][a-zA-Z0-9_]*$/
MatchesKey(t) ==
    Len(t) >= 1 /\ t[1] \in Letters /\ AllIn(t, 2, Letters \cup Digits \cup {"_"})
\* /^[a-zA-Z][a-zA-Z0-9]*$/
MatchesChain(t) == Len(t) >= 1 /\ t[1] \in Letters /\ AllIn(t, 2, Letters \cup Digits)
\* /^0x[a-fA-F0-9]{n}$/
MatchesHex(t, n) ==
    Len(t) = n + 2 /\ t[1] = "0" /\ t[2] = "x" /\ AllIn(t, 3, HexDigits)
\* as MatchesRpc, the whole pattern optional: /^(https?:\/\/.+)?$/
MatchesRpcOrEmpty(t) ==
    LET at(i, q) == Len(t) >= i + Len(q) - 1 /\ SubSeq(t, i, i + Len(q) - 1) = q
        rest(i)  == Len(t) >= i /\ \A j \in i..Len(t) : t[j] \notin LineEnds
    IN  \/ t = <<>>
        \/ /\ at(1, <<"h", "t", "t", "p">>)
           /\ \/ at(5, <<":", "/", "/">>) /\ rest(8)
              \/ at(5, <<"s", ":", "/", "/">>) /\ rest(9)

\* /^https?:\/\/.+$/
MatchesRpc(t) ==
    LET at(i, q) == Len(t) >= i + Len(q) - 1 /\ SubSeq(t, i, i + Len(q) - 1) = q
        rest(i)  == Len(t) >= i /\ \A j \in i..Len(t) : t[j] \notin LineEnds
    IN  /\ at(1, <<"h", "t", "t", "p">>)
        /\ \/ at(5, <<":", "/", "/">>) /\ rest(8)
           \/ at(5, <<"s", ":", "/", "/">>) /\ rest(9)

K_chain       == <<"c", "h", "a", "i", "n">>
K_authority   == <<"a", "u", "t", "h", "o", "r", "i", "t", "y">>
K_userAddress == <<"u", "s", "e", "r", "A", "d", "d", "r", "e", "s", "s">>
K_kid         == <<"k", "i", "d">>
K_rpc         == <<"r", "p", "c">>
K_ledger      == <<"l", "e", "d", "g", "e", "r">>
K_chainId     == <<"c", "h", "a", "i", "n", "I", "d">>
K_actionIpfsId == <<"a", "c", "t", "i", "o", "n", "I", "p", "f", "s", "I", "d">>

\* a parameter value: a string, or a number
TextValue(t) == [num |-> FALSE, n |-> 0, s |-> t]
NumValue(n)  == [num |-> TRUE, n |-> n, s |-> <<>>]
Entry(k, v)  == [key |-> k, value |-> v]

DigitOf(d) == CHOOSE c \in Digits :
    d = (CASE c = "0" -> 0 [] c = "1" -> 1 [] c = "2" -> 2 [] c = "3" -> 3 [] c = "4" -> 4
           [] c = "5" -> 5 [] c = "6" -> 6 [] c = "7" -> 7 [] c = "8" -> 8 [] c = "9" -> 9)
RECURSIVE Decimal(_)
Decimal(n) == IF n < 10 THEN <<DigitOf(n)>> ELSE Decimal(n \div 10) \o <<DigitOf(n % 10)>>
\* String(value)
JsString(v) == IF v.num THEN Decimal(v.n) ELSE v.s

\* as valueAccepted, the generic character check made under every key
valueAcceptedNoQuotes(key, stringValue) ==
    /\ ~HasAny(stringValue, Dangerous)
    /\ CASE key = K_chain -> MatchesChain(stringValue)
         [] key \in {K_authority, K_userAddress} -> MatchesHex(stringValue, 40)
         [] key = K_kid -> MatchesHex(stringValue, 32)
         [] key = K_rpc -> MatchesRpc(stringValue)
         [] OTHER -> TRUE

\* the switch of validateParameters, lines 414-441
valueAccepted(key, stringValue) ==
    CASE key = K_chain -> MatchesChain(stringValue)
      [] key \in {K_authority, K_userAddress} -> MatchesHex(stringValue, 40)
      [] key = K_kid -> MatchesHex(stringValue, 32)
      [] key = K_rpc -> MatchesRpc(stringValue)
      [] OTHER -> ~HasAny(stringValue, Dangerous)

\* the message of the Error each case throws
messageFor(key) ==
    CASE key = K_chain -> "Invalid chain name"
      [] key \in {K_authority, K_userAddress} -> "Invalid Ethereum address"
      [] key = K_kid -> "Invalid KID format"
      [] key = K_rpc -> "Invalid RPC URL"
      [] OTHER -> "Invalid characters in parameter"

NoValidation == [ran |-> FALSE, ok |-> FALSE, validated |-> <<>>, err |-> "", at |-> 0]

\* the value of an expression computed once: the element of a one-element set
The(S) == CHOOSE x \in S : TRUE

\* validateParameters, lines 402-447: entries are taken in order and the first
\* one refused throws
validateParameters(given) ==
  The({
    LET bad(i) == \/ ~MatchesKey(parameters[i].key)
                  \/ ~valueAccepted(parameters[i].key, JsString(parameters[i].value))
        refused == {i \in 1..Len(parameters) : bad(i)}
    IN  IF refused = {}
        THEN [ran |-> TRUE, ok |-> TRUE,
              validated |-> [i \in 1..Len(parameters) |->
                               [key |-> parameters[i].key,
                                value |-> JsString(parameters[i].value)]],
              err |-> "", at |-> 0]
        ELSE LET i == CHOOSE j \in refused : \A k \in refused : j <= k
             IN  [ran |-> TRUE, ok |-> FALSE, validated |-> <<>>,
                  err |-> IF ~MatchesKey(parameters[i].key) THEN "Invalid parameter key"
                          ELSE messageFor(parameters[i].key),
                  at |-> i]
    : parameters \in {given} })

(***************************************************************************)
(* LitKeystoreManager.safeReplaceParameters.  Objects and arrays live in a *)
(* heap, a sequence of nodes named by their index; a value is a string, a  *)
(* leaf of another primitive type, or a reference to a node.               *)
(***************************************************************************)
StrVal(t)   == [k |-> "str", s |-> t, n |-> 0]
OtherVal(n) == [k |-> "other", s |-> <<>>, n |-> n]
RefVal(id)  == [k |-> "ref", s |-> <<>>, n |-> id]
ArrNode(items)       == [t |-> "arr", keys |-> <<>>, items |-> items]
ObjNode(keys, items) == [t |-> "obj", keys |-> keys, items |-> items]

\* whether p occurs in t at position i
OccursAt(t, i, p) == i + Len(p) - 1 <= Len(t) /\ SubSeq(t, i, i + Len(p) - 1) = p

\* the replacement string of String.prototype.replace, for a pattern without
\* groups: $$ is a dollar sign, $& the match and $' the text after the match;
\* every other character stands for itself.  (A dollar sign before a grave
\* accent stands for the text before the match; no text here holds one.)
RECURSIVE Expand(_, _, _, _)
Expand(value, j, matched, after) ==
    LET special == {i \in j..(Len(value) - 1) :
                        value[i] = "$" /\ value[i + 1] \in {"$", "&", "'"}}
    IN  IF special = {} THEN SubSeq(value, j, Len(value))
        ELSE LET i == CHOOSE m \in special : \A o \in special : m <= o
             IN  SubSeq(value, j, i - 1)
                 \o (CASE value[i + 1] = "$" -> <<"$">>
                       [] value[i + 1] = "&" -> matched
                       [] OTHER -> after)
                 \o Expand(value, i + 2, matched, after)

\* result.replace(new RegExp(`:${key}`, "g"), value) from position i on: the
\* matches are found left to right in the string as it was, none overlapping
RECURSIVE ReplaceFrom(_, _, _, _)
ReplaceFrom(t, i, pattern, value) ==
    LET matches == {j \in i..Len(t) : OccursAt(t, j, pattern)}
    IN  IF matches = {} THEN SubSeq(t, i, Len(t))
        ELSE LET j == CHOOSE m \in matches : \A o \in matches : m <= o
             IN  SubSeq(t, i, j - 1)
                 \o Expand(value, 1, pattern, SubSeq(t, j + Len(pattern), Len(t)))
                 \o ReplaceFrom(t, j + Len(pattern), pattern, value)

\* the loop of lines 455-457: one replace per validated parameter, in the
\* order of the entries, each working on the result of the one before
RECURSIVE replaceString(_, _)
replaceString(t, parameters) ==
    IF parameters = <<>> THEN t
    ELSE The({ replaceString(result, Tail(parameters)) :
               result \in {ReplaceFrom(t, 1, <<":">> \o Head(parameters).key,
                                       Head(parameters).value)} })

\* as passThrough, the leaf turned into its string form
passThroughAsString(v) == StrVal(Decimal(v.n))

\* line 474: a leaf that is neither string, array nor object is returned as is
passThrough(v) == v

RECURSIVE safeReplaceParameters(_, _, _)
RECURSIVE replaceItems(_, _, _)

\* as safeReplaceParameters, arrays and objects being edited where they are
safeReplaceParametersInPlace(h, condition, parameters) ==
    IF condition.k = "str"
    THEN [h |-> h, v |-> StrVal(replaceString(condition.s, parameters))]
    ELSE IF condition.k = "ref"
    THEN The({ [h |-> [r.h EXCEPT ![condition.n].items = r.items], v |-> condition] :
               r \in {replaceItems(h, h[condition.n].items, parameters)} })
    ELSE [h |-> h, v |-> passThrough(condition)]

\* safeReplaceParameters, lines 449-475: a string is replaced, an array or an
\* object gives a new array or object of the same keys whose items are the
\* items' replacements.  Returns the heap after the call and the value made.
safeReplaceParameters(h, condition, parameters) ==
    IF condition.k = "str"
    THEN [h |-> h, v |-> StrVal(replaceString(condition.s, parameters))]
    ELSE IF condition.k = "ref"
    THEN The({ [h |-> Append(r.h, [h[condition.n] EXCEPT !.items = r.items]),
                v |-> RefVal(Len(r.h) + 1)] :
               r \in {replaceItems(h, h[condition.n].items, parameters)} })
    ELSE [h |-> h, v |-> passThrough(condition)]

\* condition.map(...) and the loop over Object.entries(condition)
replaceItems(h, items, parameters) ==
    IF items = <<>> THEN [h |-> h, items |-> <<>>]
    ELSE The({ The({ [h |-> rest.h, items |-> <<first.v>> \o rest.items] :
                     rest \in {replaceItems(first.h, Tail(items), parameters)} }) :
               first \in {safeReplaceParameters(h, Head(items), parameters)} })

NoSubst ==
    [ran |-> FALSE, parameters |-> <<>>, ok |-> FALSE, err |-> "", validated |-> <<>>,
     v |-> OtherVal(0), calls |-> 0]

\* replaceConditionsParameters, lines 385-400: the parameters are validated,
\* then every condition of the list is replaced into a new list
replaceConditionsParameters(h, conditions, parameters) ==
    The({ IF ~validatedParams.ok
          THEN [ok |-> FALSE, err |-> validatedParams.err, validated |-> <<>>,
                h |-> h, v |-> OtherVal(0)]
          ELSE The({ [ok |-> TRUE, err |-> "", validated |-> validatedParams.validated,
                      h |-> Append(r.h, ArrNode(r.items)), v |-> RefVal(Len(r.h) + 1)] :
                     r \in {replaceItems(h, h[conditions.n].items,
                                         validatedParams.validated)} }) :
          validatedParams \in {validateParameters(parameters)} })

(***************************************************************************)
(* LitKeystoreManager.encode and what it builds (lit-protocol/LitEncoder.ts)*)
(***************************************************************************)
\* the two encoders made by the factory
LitEncoderEOA ==
    [keySystemId |-> "CencDRM_LitV1", protectionType |-> "CencDRM_LitV1",
     actionIpfsId |-> <<"Q", "m", "Q", "g", "w">>,
     accessCheckIpfsId |-> <<"Q", "m", "V", "d", "U">>]
LitEncoderSA ==
    [keySystemId |-> "CencDRM_LitSAV1", protectionType |-> "CencDRM_LitSAV1",
     actionIpfsId |-> <<"Q", "m", "W", "D", "B">>,
     accessCheckIpfsId |-> <<"Q", "m", "a", "y", "E">>]

\* the strings of the template
S_evmBasic    == <<"e", "v", "m", "B", "a", "s", "i", "c">>
S_LitAction   == <<"L", "i", "t", "A", "c", "t", "i", "o", "n">>
S_method      == <<"h", "a", "s", "A", "c", "c", "e", "s", "s", "B", "y", "C", "o", "n", "t", "e", "n", "t", "I", "d">>
S_ipfs        == <<"i", "p", "f", "s", ":", "/", "/">>
S_equals      == <<"=">>
S_true        == <<"t", "r", "u", "e">>
S_and         == <<"a", "n", "d">>
P_chain       == <<":">> \o K_chain
P_currentActionIpfsId == <<":", "c", "u", "r", "r", "e", "n", "t", "A", "c", "t", "i", "o", "n", "I", "p", "f", "s", "I", "d">>
P_actionIpfsId == <<":">> \o K_actionIpfsId
P_userAddress == <<":">> \o K_userAddress
P_kid         == <<":">> \o K_kid
P_authority   == <<":">> \o K_authority
P_rpc         == <<":">> \o K_rpc
ConditionKeys ==
    <<"conditionType", "contractAddress", "standardContractType", "chain", "method",
      "parameters", "returnValueTest">>

\* the constructor, lines 277-302: the heap of a new encoder holds its
\* template, the object { unifiedAccessControlConditions: [...] } last
accessControlsTemplate(profile) ==
    << ArrNode(<<StrVal(P_currentActionIpfsId)>>),
       ObjNode(<<"comparator", "value">>, <<StrVal(S_equals), StrVal(P_actionIpfsId)>>),
       ObjNode(ConditionKeys,
               <<StrVal(S_evmBasic), StrVal(<<>>), StrVal(<<>>), StrVal(P_chain),
                 StrVal(<<>>), RefVal(1), RefVal(2)>>),
       ObjNode(<<"operator">>, <<StrVal(S_and)>>),
       ArrNode(<<StrVal(P_userAddress), StrVal(P_kid), StrVal(P_authority),
                 StrVal(P_rpc)>>),
       ObjNode(<<"comparator", "value">>, <<StrVal(S_equals), StrVal(S_true)>>),
       ObjNode(ConditionKeys,
               <<StrVal(S_evmBasic), StrVal(S_ipfs \o profile.accessCheckIpfsId),
                 StrVal(S_LitAction), StrVal(P_chain), StrVal(S_method),
                 RefVal(5), RefVal(6)>>),
       ArrNode(<<RefVal(3), RefVal(4), RefVal(7)>>),
       ObjNode(<<"unifiedAccessControlConditions">>, <<RefVal(8)>>) >>

\* JavaScript truthiness of a string field
Truthy(class) == class \notin {"absent", "empty"}

\* the text of a field of a class, where the field is present
AddressText == <<"0", "x">> \o Rep("a", 40)
RpcText     == <<"h", "t", "t", "p", "s", ":", "/", "/", "r", "p", "c">>
ParamText(key, class) ==
    IF class = "empty" THEN <<>> ELSE IF key = K_rpc THEN RpcText ELSE AddressText
\* `0x${kid}` for a sanitized kid: 32 hexadecimal digits
KidText(kid) == <<"0", "x">> \o Rep(DigitOf(kid), 32)

\* supportedChains (lib/constants/evm.ts)
supportedChains ==
    [id \in {421614, 8453} |->
        IF id = 421614
        THEN <<"a", "r", "b", "i", "t", "r", "u", "m", "S", "e", "p", "o", "l", "i", "a">>
        ELSE <<"b", "a", "s", "e">>]
\* as getChainName, without the fallback
getChainNameOrNothing(chainId) ==
    IF chainId \in DOMAIN supportedChains THEN supportedChains[chainId] ELSE <<>>

\* getChainName with its default fallback; chainId 0 is Number(undefined)
getChainName(chainId) ==
    IF chainId \in DOMAIN supportedChains THEN supportedChains[chainId]
    ELSE <<"e", "t", "h", "e", "r", "e", "u", "m">>

\* obj[key] = value on an object kept as its list of entries: an existing key
\* keeps its place, a new one goes last
SetEntry(entries, key, value) ==
    IF \E i \in 1..Len(entries) : entries[i].key = key
    THEN [i \in 1..Len(entries) |->
            IF entries[i].key = key THEN Entry(key, value) ELSE entries[i]]
    ELSE Append(entries, Entry(key, value))

\* { kid: `0x${kid}`, ...protocolParameters } (keystore.service.ts)
LitProtectionEntries(kid, protection) ==
    LET field(key, class) ==
            IF class = "absent" THEN <<>>
            ELSE <<Entry(key, TextValue(ParamText(key, class)))>>
    IN  <<Entry(K_kid, TextValue(KidText(kid)))>>
        \o field(K_authority, protection.authority)
        \o field(K_ledger, protection.ledger)
        \o (IF protection.chainId = 0 THEN <<>>
            ELSE <<Entry(K_chainId, NumValue(protection.chainId))>>)
        \o field(K_rpc, protection.rpc)

\* the parameters buildAccessControls hands to replaceConditionsParameters
LitParameters(profile, kid, protection) ==
    LET chain(e0) == SetEntry(e0, K_chain, TextValue(getChainName(protection.chainId)))
        authority(e1) ==
            SetEntry(e1, K_authority,
                     TextValue(IF protection.authority = "absent" THEN <<>>
                               ELSE ParamText(K_authority, protection.authority)))
        actionIpfsId(e2) == SetEntry(e2, K_actionIpfsId, TextValue(profile.actionIpfsId))
        rpc(e3) ==
            SetEntry(e3, K_rpc,
                     TextValue(IF protection.rpc = "absent"
                               THEN <<"u", "n", "d", "e", "f", "i", "n", "e", "d">>
                               ELSE ParamText(K_rpc, protection.rpc)))
    IN  The({ rpc(e3) : e3 \in { actionIpfsId(e2) : e2 \in { authority(e1) :
              e1 \in { chain(e0) : e0 \in {LitProtectionEntries(kid, protection)} } } } })

\* encode, line 312: the support probe is made only for a truthy authority
\* and a truthy rpc
LitProbes(protection) == Truthy(protection.authority) /\ Truthy(protection.rpc)

\* buildAccessControls, lines 369-383, on an encoder whose heap is h and whose
\* template is the node tpl: each entry of the template (there is one) is
\* replaced into a new object.  The parameters are validated before any
\* condition is built, and a refusal throws.
buildAccessControls(h, tpl, profile, kid, protection) ==
    The({ IF ~r.ok THEN r
          ELSE [r EXCEPT !.h = Append(r.h, ObjNode(h[tpl].keys, <<r.v>>)),
                         !.v = RefVal(Len(r.h) + 1)] :
          r \in {replaceConditionsParameters(h, h[tpl].items[1],
                                             LitParameters(profile, kid, protection))} })

\* encryptString's answer as the provider gives it
LitCipher(cek, nonce) ==
    <<Chunk("lit", CipherLen(BufferToString(cek, "base64")), 0, cek, nonce, "base64")>>

(***************************************************************************)
(* keystore.create (services/keystore.service.ts)                          *)
(***************************************************************************)
Encoders == {"ecies", "eoa", "sa"}
LitProfile(b) == IF b = "eoa" THEN LitEncoderEOA ELSE LitEncoderSA

\* uuidFromString(salt, namespace): a hash, distinct for distinct inputs
uuidFromString(salt, ns) == 2 * (salt - 1) + ns
\* generateKeyPair, given the random uuid drawn
generateKeyPair(salt, id) == [kid |-> id, key |-> uuidFromString(salt, id)]

\* an EncodingResult as create keeps it, with the encoder that gave it
EncodingResult(b, keystore, systemId, protectionData) ==
    [by |-> b, keystore |-> keystore, systemId |-> systemId,
     protectionData |-> protectionData]

\* ECIESKeystoreManager.buildProtectionData and the result of encode, lines
\* 66-75 and 86-100: systemId and protectionData only with a protection
ECIESResult(r) ==
    EncodingResult("ecies", r.keystore, r.systemId,
        IF r.hasProtectionData
        THEN [protectionType |-> "CencDRM_V1", variant |-> "eth.web3.clearkey",
              ciphersuite |-> "e8582013",
              data |-> [publicKey |-> r.publicKey, protection |-> r.protection]]
        ELSE [protectionType |-> "", variant |-> "", ciphersuite |-> "",
              data |-> [publicKey |-> NoPub, protection |-> NoProtection]])

\* encryptString's dataToEncryptHash
LitHash(cek) == [sha256 |-> BufferToString(cek, "base64")]

\* as LitResult, the data holding the request made to encryptString too
LitResultWithRequest(b, profile, protection, cek, nonce, made) ==
    EncodingResult(b, LitCipher(cek, nonce), profile.keySystemId,
        [network |-> "litNetwork", protectionType |-> profile.protectionType,
         variant |-> "eth.web3.clearkey",
         data |-> [ciphertext |-> LitCipher(cek, nonce), hash |-> LitHash(cek),
                   dataToEncrypt |-> BufferToString(cek, "base64"),
                   accessControls |-> [h |-> made.h, v |-> made.v],
                   rpc |-> protection.rpc, authority |-> protection.authority,
                   actionIpfsId |-> profile.actionIpfsId,
                   chainId |-> protection.chainId,
                   chain |-> getChainName(protection.chainId)]])

\* LitKeystoreManager.buildProtectionData and the result of encode, lines
\* 328-339 and 346-363.  made is what buildAccessControls returned.
LitResult(b, profile, protection, cek, nonce, made) ==
    EncodingResult(b, LitCipher(cek, nonce), profile.keySystemId,
        [network |-> "litNetwork", protectionType |-> profile.protectionType,
         variant |-> "eth.web3.clearkey",
         data |-> [ciphertext |-> LitCipher(cek, nonce), hash |-> LitHash(cek),
                   accessControls |-> [h |-> made.h, v |-> made.v],
                   rpc |-> protection.rpc, authority |-> protection.authority,
                   actionIpfsId |-> profile.actionIpfsId,
                   chainId |-> protection.chainId,
                   chain |-> getChainName(protection.chainId)]])

\* a branch of create: where it is, how it ended, whether an encoder was
\* launched, with which CEK bytes and which protection object (its fields as
\* they stand), whether it built access controls, the outside calls it made
\* with their answers, and the error it caught
NoBranch ==
    [at |-> "idle", outcome |-> "", launched |-> FALSE, cek |-> 0,
     protection |-> NoProtection, built |-> FALSE, calls |-> <<>>, err |-> ""]
NoCreate ==
    [pc |-> "idle", salt |-> 0, pk |-> NoPk, skipEcies |-> FALSE,
     protocolParameters |-> NoProtection, kid |-> 0, key |-> 0, privateKey |-> NoPk,
     br |-> [b \in Encoders |-> NoBranch], psshInputs |-> <<>>,
     err |-> "", code |-> 0, ret |-> <<>>]

\* the create calls followed.  A call shares nothing with another but the
\* processor map, which create only reads.
CallIds == {1}

\* as resolvePrivateKey, the processors never looked at
resolvePrivateKeyOfCaller(pk, procs) == pk

\* pk ?? Object.values(authorizedProcessors).at(0) ?? null
resolvePrivateKey(pk, procs) ==
    IF pk # NoPk THEN pk ELSE IF Len(procs) > 0 THEN procs[1].pk ELSE NoPk

(***************************************************************************)
(* The cron mixin (lib/mixins/cron.mixin.ts)                               *)
(*                                                                         *)
(* The task node-cron schedules is an object in memory that does what it   *)
(* is asked: its start, stop and destroy return.  The callbacks of a       *)
(* config (onStart, onStop, onTick, onComplete) may throw or reject.       *)
(***************************************************************************)
JobNames == {"a", "b"}

\* a CronJobConfig, with a valid cronTime and an onTick: its name ("" when it
\* has none), manualStart, whether it has an onComplete, whether it has the
\* onStart and onStop hooks, runOnInit
CronJob(name, manualStart, onComplete, hooks, runOnInit) ==
    [name |-> name, manualStart |-> manualStart, onComplete |-> onComplete,
     hooks |-> hooks, runOnInit |-> runOnInit]
NoJob     == CronJob("", FALSE, FALSE, FALSE, FALSE)
\* a jobWrapper; log lists, in order, the calls it made on its task and the
\* callbacks of its config that were called
NoWrapper ==
    [made |-> FALSE, config |-> NoJob, isRunning |-> FALSE, executionCount |-> 0,
     log |-> <<>>]
NoCronOp  == [n |-> 0, op |-> "", name |-> "", outcome |-> "", ret |-> ""]

\* this.jobs.has(name)
hasJob(names, name) == \E i \in 1..Len(names) : names[i] = name
RemoveAt(q, i) == SubSeq(q, 1, i - 1) \o SubSeq(q, i + 1, Len(q))

\* createJob, lines 98-213, on the Map st.jobs: a config without a name, or
\* with the name of a job of the Map, throws; otherwise the task is scheduled,
\* the wrapper made not running and set in the Map, and a runOnInit job has
\* its onTick called once, outside any tick
createJob(st, jobConfig) ==
    IF jobConfig.name = "" \/ hasJob(st.jobs, jobConfig.name)
    THEN [st EXCEPT !.threw = TRUE]
    ELSE [jobs |-> Append(st.jobs, jobConfig.name),
          wrappers |-> [st.wrappers EXCEPT ![jobConfig.name] =
                            [made |-> TRUE, config |-> jobConfig, isRunning |-> FALSE,
                             executionCount |-> 0,
                             log |-> IF jobConfig.runOnInit THEN <<"onTick">> ELSE <<>>]],
          threw |-> FALSE]

\* validateAndCreateJobs, lines 77-93: each config in turn, an error of
\* createJob logged and passed over
RECURSIVE validateAndCreateJobs(_, _)
validateAndCreateJobs(st, cronJobs) ==
    IF cronJobs = <<>> THEN st
    ELSE validateAndCreateJobs([createJob(st, Head(cronJobs)) EXCEPT !.threw = FALSE],
                               Tail(cronJobs))

\* as wrapperStart, without the test of isRunning
wrapperStartAlways(w) ==
    [w EXCEPT !.isRunning = TRUE,
              !.log = @ \o <<"task.start">>
                        \o (IF w.config.hooks THEN <<"onStart">> ELSE <<>>)]

\* jobWrapper.start, lines 131-150: an error of onStart is caught
wrapperStart(w) ==
    IF w.isRunning THEN w
    ELSE [w EXCEPT !.isRunning = TRUE,
                   !.log = @ \o <<"task.start">>
                             \o (IF w.config.hooks THEN <<"onStart">> ELSE <<>>)]

\* jobWrapper.stop, lines 151-170: an error of onStop is caught
wrapperStop(w) ==
    IF ~w.isRunning THEN w
    ELSE [w EXCEPT !.isRunning = FALSE,
                   !.log = @ \o <<"task.stop">>
                             \o (IF w.config.hooks THEN <<"onStop">> ELSE <<>>)]

\* jobWrapper.destroy, lines 171-174
wrapperDestroy(w) ==
    [w EXCEPT !.isRunning = FALSE, !.log = Append(@, "task.destroy")]

\* startJobs, lines 259-270: every job of the Map not marked manualStart
startJobs(ws, names) ==
    [name \in JobNames |->
        IF hasJob(names, name) /\ ~ws[name].config.manualStart
        THEN wrapperStart(ws[name]) ELSE ws[name]]

\* the loop of stopped, lines 60-68: every job of the Map is stopped, then
\* destroyed
stopJobs(ws, names) ==
    [name \in JobNames |->
        IF hasJob(names, name)
        THEN wrapperDestroy(wrapperStop(ws[name])) ELSE ws[name]]

\* what wrapOnComplete's callback gives the tick that awaits it, lines
\* 242-253: it returns, whatever onComplete did
wrapOnComplete(outcome) == "ok"

\* as wrapOnTick, without its try and catch
wrapOnTickNoCatch(outcome) == IF outcome = "ok" THEN "resolved" ELSE "rejected"

\* how the callback wrapOnTick made ends, lines 222-237, onTick (or what
\* followed it) having ended with outcome: the error is logged
wrapOnTick(outcome) == "resolved"

(***************************************************************************)
(* State of the wrap / unwrap / transfer protocol                          *)
(***************************************************************************)
NoRun ==
    [made |-> FALSE, via |-> "", privateKey |-> NoPk, remoteKey |-> NoPub, kid |-> 0,
     cek |-> 0, format |-> "", sig |-> <<>>, pubKey |-> NoPub, raw |-> <<>>]
NoUnwrap ==
    [ok |-> FALSE, err |-> "", code |-> 0, kid |-> 0, key |-> NoStr, guardian |-> 0,
     recovered |-> 0, sig |-> <<>>, calls |-> <<>>]
NoOut ==
    [op |-> "none", kid |-> 0, data |-> <<>>, pubKey |-> NoPub, format |-> "",
     u |-> NoUnwrap, made |-> FALSE, e |-> NoEnvelope]

\* process.env.ETH_PK: unset, or the private key of the operator's wallet
\* (ethers' wallet.privateKey always carries "0x")
EthPkChoices == {NoPk, Pk(1, TRUE)}

\* the private keys a caller may construct an encoder with
SenderKeys == {Pk(1, TRUE), Pk(1, FALSE), Pk(2, TRUE)}
\* the recipient keys a caller may name: none, the first key's public key
\* written with its "04" lead, the second key's bare curve point
RemoteKeys == {NoPub, Pub(1, 2), Pub(2, 0)}

Init ==
    /\ authorizedProcessors = <<>>
    /\ svcStarted = FALSE
    /\ produced = [s \in Slots |-> NoRun]
    /\ out = NoOut
    /\ vIn = <<>>
    /\ vOut = NoValidation
    /\ cr = [c \in CallIds |-> NoCreate]
    /\ events = <<>>
    /\ litHeap = <<>>
    /\ litTemplate = <<>>
    /\ litOut = NoSubst
    /\ cronCreated = FALSE
    /\ jobs = <<>>
    /\ wrappers = [name \in JobNames |-> NoWrapper]
    /\ ticks = <<>>
    /\ cronOp = NoCronOp

\* as Started, run again whenever asked
StartedAgain(ethPk) ==
    /\ svcStarted' = TRUE
    /\ authorizedProcessors' =
         IF ethPk # NoPk
         THEN setProcessor(authorizedProcessors, AddressOf(ethPk), Pk(ethPk.id, TRUE))
         ELSE authorizedProcessors

\* started(), lines 363-373
Started(ethPk) ==
    /\ ~svcStarted
    /\ svcStarted' = TRUE
    /\ authorizedProcessors' =
         IF ethPk # NoPk
         THEN setProcessor(authorizedProcessors, AddressOf(ethPk), Pk(ethPk.id, TRUE))
         ELSE authorizedProcessors

\* What a call returns depends only on the envelopes presented and on the
\* processor map, never on an earlier call: out holds the last outcome for
\* the properties to read, and the next call is taken from the state in which
\* the caller has read it (out = NoOut).
Idle == svcStarted /\ out = NoOut

\* a caller runs the ECIES encoder (no protection: nothing goes on chain) and
\* keeps the envelope in slot s.  Key identifiers and keys are interchangeable,
\* so the first envelope is taken to be for kid 1 and key 1.
Encode(s, privateKey, remoteKey, kid, cek, format) ==
    /\ Idle
    /\ s = 1 => kid = 1 /\ cek = 1
    /\ s = 2 => produced[1].made
    /\ LET r == ECIESEncode(ECIESParameters(privateKey, remoteKey, kid, format), cek,
                            NoProtection, "ok", s)
           e == ECIESEnvelope(ECIESParameters(privateKey, remoteKey, kid, format), cek, s)
       IN  /\ r.ok
           /\ produced' = [produced EXCEPT ![s] =
                 [made |-> TRUE, via |-> "encode", privateKey |-> privateKey,
                  remoteKey |-> remoteKey, kid |-> kid, cek |-> cek, format |-> format,
                  sig |-> e.sig, pubKey |-> e.pubKey, raw |-> r.keystore]]
    /\ out' = NoOut
    /\ UNCHANGED <<cronVars, svcVars, valVars, crVars, subVars>>

MadeSlots == {s \in Slots : produced[s].made}
cipherOf(run) == Drop(run.raw, StrLen(run.sig))

\* what a caller can present as an envelope: one it holds, one it holds with
\* the leading 0x removed, the signature of one joined to the ciphertext of
\* the other, and a cut-off one
Whole    == {produced[s].raw : s \in MadeSlots}
Spliced  == {produced[s].sig \o cipherOf(produced[t]) :
                 <<s, t>> \in {p \in MadeSlots \X MadeSlots : p[1] # p[2]}}
Stripped == {removeLeading0x(d) : d \in Whole}
CutOff   == {Take(d, 100) : d \in Whole}

UnwrapCall(kid, data) ==
    /\ Idle
    /\ out' = [NoOut EXCEPT !.op = "unwrap", !.kid = kid, !.data = data,
                            !.u = unwrap(authorizedProcessors, kid, data)]
    /\ UNCHANGED <<cronVars, produced, svcVars, valVars, crVars, subVars>>

TransferCall(kid, data, pubKey, format) ==
    /\ Idle
    /\ LET t == transfer(authorizedProcessors, kid, data, pubKey, format, 3)
       IN  out' = [op |-> "transfer", kid |-> kid, data |-> data, pubKey |-> pubKey,
                   format |-> format, u |-> t.u, made |-> t.made, e |-> t.e]
    /\ UNCHANGED <<cronVars, produced, svcVars, valVars, crVars, subVars>>

\* the caller keeps the envelope a transfer returned, in place of its second
Keep ==
    /\ out.op = "transfer" /\ out.made
    /\ produced[1].made
    /\ produced' = [produced EXCEPT ![2] =
          [made |-> TRUE, via |-> "transfer",
           privateKey |-> processorKey(authorizedProcessors, out.u.guardian),
           remoteKey |-> out.pubKey, kid |-> out.kid, cek |-> HexDecode(out.u.key),
           format |-> out.format, sig |-> out.e.sig, pubKey |-> out.e.pubKey,
           raw |-> out.e.raw]]
    /\ out' = NoOut
    /\ UNCHANGED <<cronVars, svcVars, valVars, crVars, subVars>>

\* the caller has read the outcome
Read ==
    /\ out # NoOut
    /\ out' = NoOut
    /\ UNCHANGED <<cronVars, produced, svcVars, valVars, crVars, subVars>>

NextWrap ==
    \/ \E ethPk \in EthPkChoices : Started(ethPk) /\ UNCHANGED <<cronVars, wrapVars, valVars, crVars, subVars>>
    \/ \E s \in Slots, privateKey \in SenderKeys, remoteKey \in RemoteKeys,
          kid \in Kids, cek \in Ceks, format \in Formats :
          Encode(s, privateKey, remoteKey, kid, cek, format)
    \/ \E kid \in Kids, data \in Whole \cup Spliced \cup Stripped \cup CutOff :
          UnwrapCall(kid, data)
    \/ \E kid \in Kids, data \in Whole \cup Spliced, pubKey \in RemoteKeys \ {NoPub},
          format \in Formats : TransferCall(kid, data, pubKey, format)
    \/ Keep
    \/ Read

SpecWrap == Init /\ [][NextWrap]_vars
(***************************************************************************)
(* Properties of unwrap / transfer / the ECIES envelope                    *)
(***************************************************************************)
\* the address unwrap recovers from what it was given
RecoveredOf(o) == Recover(Take(o.data, sigLength(o.data)), Keccak(o.kid))
CalledUnwrap   == out.op \in {"unwrap", "transfer"}
InSeq(x, q)    == \E i \in 1..Len(q) : q[i] = x

UnwrappedRuns ==
    {s \in MadeSlots : /\ produced[s].via = "encode"
                       /\ out.op = "unwrap"
                       /\ out.data = produced[s].raw
                       /\ out.kid = produced[s].kid}
ReturnsKeyOf(s) == out.u.ok /\ out.u.key = Str(produced[s].cek, "hex")

\* C5 as stated: for every key and every key pair, unwrapping the envelope the
\* ECIES encoder produced returns the original 32-hex-character key
C5_RoundTripEveryKeyPair == \A s \in UnwrappedRuns : ReturnsKeyOf(s)

\* C5 amended: the round trip holds when the sender's private key is given
\* with its 0x prefix and is the key of a registered processor, the recipient
\* is the sender's own public key (no remote key, or the sender's own), and the
\* transport format is hex
C5_RoundTripRegistered ==
    \A s \in UnwrappedRuns :
      LET r == produced[s] IN
      ( /\ r.privateKey.pfx
        /\ processorKey(authorizedProcessors, AddressOf(r.privateKey)).id = r.privateKey.id
        /\ (r.remoteKey = NoPub \/ r.remoteKey.owner = r.privateKey.id)
        /\ r.format = "hex" )
      => ReturnsKeyOf(s)

\* C5 witness: an envelope made by a registered processor for its own public
\* key, named explicitly with its 04 lead, was unwrapped into the key
C5_Witness ==
    \E s \in UnwrappedRuns :
      /\ produced[s].remoteKey = Pub(1, 2) /\ produced[s].privateKey = Pk(1, TRUE)
      /\ ReturnsKeyOf(s)

\* every envelope in sight: the ones held, and the one transfer just returned
Runs ==
    {produced[s] : s \in MadeSlots} \cup
    (IF out.op = "transfer" /\ out.made
     THEN {[made |-> TRUE, via |-> "transfer",
            privateKey |-> processorKey(authorizedProcessors, out.u.guardian),
            remoteKey |-> out.pubKey, kid |-> out.kid, cek |-> HexDecode(out.u.key),
            format |-> out.format, sig |-> out.e.sig, pubKey |-> out.e.pubKey,
            raw |-> out.e.raw]}
     ELSE {})

\* C6: every envelope the encoder or transfer produced is signature ||
\* serialized ciphertext; the signature part is 130 hex characters, or 132
\* with its 0x; the signer recovered from it and keccak256(kid) is the sender;
\* and unwrap cuts the envelope at that boundary
C6_EnvelopeShape ==
    /\ \A r \in Runs :
         LET n == StrLen(r.sig) IN
         /\ n \in {130, 132} /\ (n = 132 <=> StartsWith0x(r.raw))
         /\ Take(r.raw, n) = r.sig
         /\ CipherParse(Drop(r.raw, n)).t = "cipher"
         /\ Recover(Take(r.raw, n), Keccak(r.kid)) = AddressOf(r.privateKey)
         /\ sigLength(r.raw) = n
    /\ \A s \in MadeSlots :
         (CalledUnwrap /\ out.data = produced[s].raw) => out.u.sig = produced[s].sig

\* C6 witness: transfer returned an envelope made from one the encoder made
C6_Witness ==
    /\ out.op = "transfer" /\ out.made
    /\ \E s \in MadeSlots : produced[s].via = "encode" /\ out.data = produced[s].raw

\* C7: two runs with the same sender key and the same kid carry the same
\* signature, whatever their keys, recipients and formats
C7_SignatureOfKidOnly ==
    \A r1, r2 \in Runs :
      (r1.privateKey.id = r2.privateKey.id /\ r1.kid = r2.kid) => r1.sig = r2.sig

\* C7 witness: two encoder runs by one sender for one kid that differ in key,
\* recipient and format
C7_Witness ==
    /\ produced[1].made /\ produced[2].made
    /\ produced[1].privateKey = produced[2].privateKey
    /\ produced[1].kid = produced[2].kid
    /\ produced[1].cek # produced[2].cek
    /\ produced[1].remoteKey # produced[2].remoteKey
    /\ produced[1].format # produced[2].format

\* C8 as stated: of two envelopes one guardian made for two different keys
\* (and kids), the signature of one joined to the ciphertext of the other is
\* never unwrapped into the other's key, whichever kid is presented
C8_NoSignatureReuse ==
    \A s, t \in MadeSlots :
      ( /\ s # t
        /\ produced[s].privateKey.id = produced[t].privateKey.id
        /\ produced[s].kid # produced[t].kid
        /\ produced[s].cek # produced[t].cek
        /\ CalledUnwrap
        /\ out.data = produced[s].sig \o cipherOf(produced[t]) )
      => ~(out.u.ok /\ out.u.key.k = produced[t].cek)

\* C9 as stated: transfer unwraps first; when unwrap fails it makes no
\* envelope; when it succeeds the envelope is the one the ECIES encoder makes
\* for sender = the guardian's registered key, recipient = the new public key,
\* the same kid, the unwrapped key and the requested format (with the same
\* randomness), and its signer is the guardian
C9_TransferIsEncode ==
    out.op = "transfer" =>
      /\ out.u = unwrap(authorizedProcessors, out.kid, out.data)
      /\ ~out.u.ok => (~out.made /\ out.e = NoEnvelope)
      /\ out.u.ok =>
           LET pk == processorKey(authorizedProcessors, out.u.guardian)
               e  == ECIESEnvelope(ECIESParameters(pk, out.pubKey, out.kid, out.format),
                                   HexDecode(out.u.key), 3)
           IN  /\ out.made
               /\ out.e.raw = e.keystore
               /\ out.e.sig = e.sig /\ out.e.pubKey = e.pubKey
               /\ Recover(out.e.sig, Keccak(out.kid)) = out.u.guardian
(***************************************************************************)
(* The validator on its own: parameter sets to validate                    *)
(***************************************************************************)
MaxParams == 2

T_chain == <<"e", "t", "h">>
T_addr  == <<"0", "x">> \o Rep("a", 40)
T_kid   == <<"0", "x">> \o Rep("B", 32)
T_rpc   == <<"h", "t", "t", "p", "s", ":", "/", "/", "r">>
T_plain == <<"l", "1">>
BaseTexts == {T_chain, T_addr, T_kid, T_rpc, T_plain}

\* a text with one character put in front, in the middle or at the end, or put
\* in place of its last character
InsertAt(t, i, c) == SubSeq(t, 1, i) \o <<c>> \o SubSeq(t, i + 1, Len(t))
WithChar(t, c) ==
    {InsertAt(t, 0, c), InsertAt(t, Len(t) \div 2, c), InsertAt(t, Len(t), c),
     SubSeq(t, 1, Len(t) - 1) \o <<c>>}

ValueTexts ==
    BaseTexts
    \cup UNION {WithChar(t, c) : t \in BaseTexts, c \in Dangerous \cup {"-", "\n", "1"}}
    \cup {<<>>, <<"e", "t", "h", "-", "1", "!">>, <<"h", "t", "t", "p", ":", "/", "/">>,
          <<"u", "n", "d", "e", "f", "i", "n", "e", "d">>}
Values == {TextValue(t) : t \in ValueTexts} \cup {NumValue(n) : n \in {0, 20, 421614}}

ParamKeys ==
    {K_chain, K_authority, K_userAddress, K_kid, K_rpc, K_ledger, K_chainId,
     <<"1", "a">>, <<"a", "-", "b">>, <<>>}

Entries     == {Entry(k, v) : k \in ParamKeys, v \in Values}
MoreEntries ==
    {Entry(K_chain, TextValue(T_chain)), Entry(K_ledger, TextValue(T_plain)),
     Entry(K_rpc, TextValue(InsertAt(T_rpc, Len(T_rpc), "'"))),
     Entry(K_kid, TextValue(T_plain))}

\* the objects handed to validateParameters: up to n entries, no key twice
RECURSIVE ParamLists(_)
ParamLists(n) ==
    IF n = 0 THEN {<<>>}
    ELSE LET prev == ParamLists(n - 1)
         IN  prev \cup
             {Append(q, e) : q \in {r \in prev : Len(r) = 0}, e \in Entries} \cup
             UNION {{Append(q, e) :
                        e \in {m \in MoreEntries : \A i \in 1..Len(q) : q[i].key # m.key}} :
                    q \in {r \in prev : Len(r) > 0}}

\* validateParameters is a function of its argument alone: each call is taken
\* from the state in which the last result has been read
ValidateCall(parameters) ==
    /\ ~vOut.ran
    /\ vIn' = parameters
    /\ vOut' = validateParameters(parameters)
    /\ UNCHANGED <<cronVars, svcVars, wrapVars, crVars, subVars>>

ValidateRead ==
    /\ vOut.ran
    /\ vIn' = <<>>
    /\ vOut' = NoValidation
    /\ UNCHANGED <<cronVars, svcVars, wrapVars, crVars, subVars>>

NextValidate ==
    \/ \E parameters \in ParamLists(MaxParams) : ValidateCall(parameters)
    \/ ValidateRead

SpecValidate == Init /\ [][NextValidate]_vars

\* C10 as stated: whatever the key, a parameter value containing ", ' or \ makes
\* validateParameters fail
C10_DangerousValueRefused ==
    (vOut.ran /\ \E i \in 1..Len(vIn) : HasAny(JsString(vIn[i].value), Dangerous))
        => ~vOut.ok

(***************************************************************************)
(* The create action: three encoders run side by side                      *)
(***************************************************************************)
\* as pushResult, the result put at the head of the list
pushResultFirst(rec, b, result) ==
    [rec EXCEPT !.psshInputs = <<result>> \o @,
                !.br[b].at = "done", !.br[b].outcome = "ok"]

\* as pushResult, the result taking the place of the list
pushResultAlone(rec, b, result) ==
    [rec EXCEPT !.psshInputs = <<result>>,
                !.br[b].at = "done", !.br[b].outcome = "ok"]

\* response.psshInputs.push(await encoder.encode(...)), lines 189-191,
\* 205-210 and 223-228
pushResult(rec, b, result) ==
    [rec EXCEPT !.psshInputs = Append(@, result),
                !.br[b].at = "done", !.br[b].outcome = "ok"]

\* as branchCaught, without the catch: the rejection reaches Promise.all and
\* the handler fails with the encoder's error
branchUncaught(rec, b) ==
    [rec EXCEPT !.br[b].at = "done", !.br[b].outcome = "failed",
                !.pc = "failed", !.err = "ENCODER_ERROR", !.code = 500]

\* the catch of each branch, lines 192-194, 211-213 and 229-231: the error is
\* logged and the branch ends
branchCaught(rec, b) ==
    [rec EXCEPT !.br[b].at = "done", !.br[b].outcome = "failed"]

\* encode(new Uint8Array(Buffer.from(key, "hex")), protection) on the encoder
\* of branch b: the ECIES encoder is given protocolParameters itself, the two
\* others { kid, ...protocolParameters }
launch(rec, b) ==
    [rec EXCEPT !.br[b].launched = TRUE, !.br[b].cek = rec.key,
                !.br[b].protection = rec.protocolParameters]

\* an outside call of branch b has been answered
answered(rec, b, op, answer) ==
    [rec EXCEPT !.br[b].calls = Append(@, [op |-> op, answer |-> answer])]

\* encode throws message in branch b
thrown(rec, b, message) == branchCaught([rec EXCEPT !.br[b].err = message], b)

\* the ECIES branch up to its first wait, lines 176-196.  The encoder is built
\* with the kid, the resolved private key and format "hex"; a call with a
\* protection that reaches the chain waits for the submission.
eciesParameters(rec) == ECIESParameters(rec.privateKey, NoPub, rec.kid, "hex")
eciesBegin(rec, nonce) ==
    IF rec.privateKey = NoPk \/ rec.skipEcies
    THEN [rec EXCEPT !.br["ecies"].at = "done", !.br["ecies"].outcome = "skipped"]
    ELSE LET r == ECIESEncode(eciesParameters(rec), rec.key, rec.protocolParameters,
                              "ok", nonce)
             l == launch(rec, "ecies")
         IN  IF r.call.made THEN [l EXCEPT !.br["ecies"].at = "submit"]
             ELSE IF r.ok THEN pushResult(l, "ecies", ECIESResult(r))
             ELSE thrown(l, "ecies", "Failed to register key on blockchain")

\* this.buildAccessControls(protection) on the encoder a branch has just made
LitAccessControls(b, rec) ==
    LET h == accessControlsTemplate(LitProfile(b))
    IN  buildAccessControls(h, Len(h), LitProfile(b), rec.kid, rec.protocolParameters)

\* as litBuild, buildAccessControls writing `authority ?? ""` into the
\* protection it was given
litBuildInPlace(rec, b) ==
    LET l == [rec EXCEPT !.br[b].built = TRUE,
                         !.br[b].protection.authority =
                              IF @ = "absent" THEN "empty" ELSE @]
    IN  IF LitAccessControls(b, rec).ok
        THEN [l EXCEPT !.br[b].at = "encrypt"]
        ELSE thrown(l, b, LitAccessControls(b, rec).err)

\* LitKeystoreManager.encode from buildAccessControls on, lines 318-343: a
\* refused parameter throws before anything is sent to the provider
litBuild(rec, b) ==
    LET l == [rec EXCEPT !.br[b].built = TRUE]
    IN  IF LitAccessControls(b, rec).ok
        THEN [l EXCEPT !.br[b].at = "encrypt"]
        ELSE thrown(l, b, LitAccessControls(b, rec).err)

\* as litBegin, the smart-account encoder never probing
litBeginProbingEOAOnly(rec, b) ==
    IF LitProbes(rec.protocolParameters) /\ b = "eoa"
    THEN [launch(rec, b) EXCEPT !.br[b].at = "probe"]
    ELSE litBuild(launch(rec, b), b)

\* a Lit branch up to its first wait, lines 197-214 and 215-232
litBegin(rec, b) ==
    IF LitProbes(rec.protocolParameters)
    THEN [launch(rec, b) EXCEPT !.br[b].at = "probe"]
    ELSE litBuild(launch(rec, b), b)

\* the error of line 314
UnsupportedAuthority ==
    "[Lit] specified authority does not support the Lit Protocol, will be skipped"

\* as checkLitProtocolSupport, a call that threw taken for support
checkLitProtocolSupportUnlessNo(answer) == answer # "no"

\* checkLitProtocolSupport: what the contract answered, false when the call
\* threw
checkLitProtocolSupport(answer) == answer = "yes"

\* as createdEvent, with the first result only
createdEventFirstOnly(rec) ==
    [kid |-> rec.kid, data |-> SubSeq(rec.psshInputs, 1, 1)]

\* the payload of keystore.created, line 239
createdEvent(rec) == [kid |-> rec.kid, data |-> rec.psshInputs]

\* as createJoin, failing unless every encoder gave a result
createJoinAllNeeded(rec) ==
    IF Len(rec.psshInputs) < Cardinality(Encoders)
    THEN [rec EXCEPT !.pc = "failed", !.err = "NO_ENCODING_PERFORMED", !.code = 400]
    ELSE [rec EXCEPT !.pc = "emitted"]

\* the end of the handler once Promise.all has resolved, lines 235-239
createJoin(rec) ==
    IF Len(rec.psshInputs) = 0
    THEN [rec EXCEPT !.pc = "failed", !.err = "NO_ENCODING_PERFORMED", !.code = 400]
    ELSE [rec EXCEPT !.pc = "emitted"]

\* what a caller may pass as options.protocolParameters: nothing, the default
\* {}, all four fields for an unsupported and a supported chain, and an empty
\* authority or rpc
ProtocolChoices ==
    {NoProtection, Protection("absent", "absent", 0, "absent"),
     Protection("ok", "ok", 20, "ok"), Protection("ok", "ok", 421614, "ok"),
     Protection("ok", "ok", 8453, "ok"),
     Protection("empty", "ok", 20, "ok"), Protection("ok", "ok", 20, "empty")}
Salts     == {1, 2}
CallerPks == {NoPk, Pk(2, TRUE)}

\* create.handler, lines 159-233: the key pair is generated, the private key
\* resolved, and the three branches are started in order, each running to its
\* first wait.  The call's number serves as the randomness of its ciphertexts.
CreateStart(c, salt, id, pk, skipEcies, protocolParameters) ==
    /\ svcStarted
    /\ cr[c].pc = "idle"
    /\ LET kp == generateKeyPair(salt, id)
           r0 == [NoCreate EXCEPT !.pc = "running", !.salt = salt, !.pk = pk,
                                  !.skipEcies = skipEcies,
                                  !.protocolParameters = protocolParameters,
                                  !.kid = kp.kid, !.key = kp.key,
                                  !.privateKey = resolvePrivateKey(pk, authorizedProcessors)]
           r1 == eciesBegin(r0, c)
           r2 == litBegin(r1, "eoa")
       IN  cr' = [cr EXCEPT ![c] = litBegin(r2, "sa")]
    /\ UNCHANGED <<cronVars, events, svcVars, wrapVars, valVars, subVars>>

\* AuthorityGateway.registerIPWithKey, the submission answered
SubmitResolve(c, answer) ==
    /\ cr[c].br["ecies"].at = "submit"
    /\ cr' = [cr EXCEPT ![c] =
                LET l == answered(@, "ecies", "register", answer)
                IN  IF ECIESEncode(eciesParameters(@), @.key, @.protocolParameters,
                                   answer, c).ok
                    THEN [l EXCEPT !.br["ecies"].at = "wait"]
                    ELSE thrown(l, "ecies", "Failed to register key on blockchain")]
    /\ UNCHANGED <<cronVars, events, svcVars, wrapVars, valVars, subVars>>

\* tx.wait() answered: its failure is only warned about
WaitResolve(c, answer) ==
    /\ cr[c].br["ecies"].at = "wait"
    /\ cr' = [cr EXCEPT ![c] =
                LET r == ECIESEncode(eciesParameters(@), @.key, @.protocolParameters,
                                     answer, c)
                    l == answered(@, "ecies", "wait", answer)
                IN  IF r.ok THEN pushResult(l, "ecies", ECIESResult(r))
                    ELSE thrown(l, "ecies", "Failed to register key on blockchain")]
    /\ UNCHANGED <<cronVars, events, svcVars, wrapVars, valVars, subVars>>

\* encode, lines 312-316: the support probe answered
ProbeResolve(c, b, answer) ==
    /\ cr[c].br[b].at = "probe"
    /\ cr' = [cr EXCEPT ![c] =
                LET l == answered(@, b, "supportsLitProtocol", answer)
                IN  IF checkLitProtocolSupport(answer) THEN litBuild(l, b)
                    ELSE thrown(l, b, UnsupportedAuthority)]
    /\ UNCHANGED <<cronVars, events, svcVars, wrapVars, valVars, subVars>>

\* as EncryptResolve, the response an object of the service and not of the
\* handler: every call pushes into the list of the first
EncryptResolveIntoOneList(c, b, answer) ==
    /\ cr[c].br[b].at = "encrypt"
    /\ LET l == answered(cr[c], b, "encryptString", answer)
           result == LitResult(b, LitProfile(b), cr[c].protocolParameters, cr[c].key, c,
                               LitAccessControls(b, cr[c]))
           ended == [cr EXCEPT ![c] =
                        IF answer = "ok"
                        THEN [l EXCEPT !.br[b].at = "done", !.br[b].outcome = "ok"]
                        ELSE thrown(l, b, "encryptString failed")]
       IN  cr' = IF answer = "ok"
                 THEN [ended EXCEPT ![1].psshInputs = Append(@, result)]
                 ELSE ended
    /\ UNCHANGED <<cronVars, events, svcVars, wrapVars, valVars, subVars>>

\* encode, lines 320-343: encryptString answered
EncryptResolve(c, b, answer) ==
    /\ cr[c].br[b].at = "encrypt"
    /\ cr' = [cr EXCEPT ![c] =
                LET l == answered(@, b, "encryptString", answer)
                IN  IF answer = "ok"
                    THEN pushResult(l, b,
                            LitResult(b, LitProfile(b), @.protocolParameters, @.key, c,
                                      LitAccessControls(b, @)))
                    ELSE thrown(l, b, "encryptString failed")]
    /\ UNCHANGED <<cronVars, events, svcVars, wrapVars, valVars, subVars>>

\* as CreateJoin, with Promise.race in the place of Promise.all: the handler
\* goes on as soon as one branch has ended
CreateJoinOnFirstEnded(c) ==
    /\ cr[c].pc = "running"
    /\ \E b \in Encoders : cr[c].br[b].at = "done"
    /\ cr' = [cr EXCEPT ![c] = createJoin(@)]
    /\ events' = IF createJoin(cr[c]).pc = "emitted"
                 THEN Append(events, createdEvent(cr[c]))
                 ELSE events
    /\ UNCHANGED <<cronVars, svcVars, wrapVars, valVars, subVars>>

\* lines 233-239: Promise.all resolves when every branch has ended; then the
\* call fails, or emits keystore.created
CreateJoin(c) ==
    /\ cr[c].pc = "running"
    /\ \A b \in Encoders : cr[c].br[b].at = "done"
    /\ cr' = [cr EXCEPT ![c] = createJoin(@)]
    /\ events' = IF createJoin(cr[c]).pc = "emitted"
                 THEN Append(events, createdEvent(cr[c]))
                 ELSE events
    /\ UNCHANGED <<cronVars, svcVars, wrapVars, valVars, subVars>>

\* line 241: return { ...response }
CreateReturn(c) ==
    /\ cr[c].pc = "emitted"
    /\ cr' = [cr EXCEPT ![c].pc = "returned", ![c].ret = cr[c].psshInputs]
    /\ UNCHANGED <<cronVars, events, svcVars, wrapVars, valVars, subVars>>

Next ==
    \/ \E ethPk \in EthPkChoices : Started(ethPk) /\ UNCHANGED <<cronVars, wrapVars, valVars, crVars, subVars>>
    \/ \E salt \in Salts, id \in Kids, pk \in CallerPks, skipEcies \in BOOLEAN,
          protocolParameters \in ProtocolChoices :
            \E c \in CallIds : CreateStart(c, salt, id, pk, skipEcies, protocolParameters)
    \/ \E answer \in {"ok", "rejected"} : \E c \in CallIds : SubmitResolve(c, answer)
    \/ \E answer \in {"ok", "waitFailed"} : \E c \in CallIds : WaitResolve(c, answer)
    \/ \E b \in {"eoa", "sa"}, answer \in {"yes", "no", "threw"} :
            \E c \in CallIds : ProbeResolve(c, b, answer)
    \/ \E b \in {"eoa", "sa"}, answer \in {"ok", "failed"} :
            \E c \in CallIds : EncryptResolve(c, b, answer)
    \/ \E c \in CallIds : CreateJoin(c)
    \/ \E c \in CallIds : CreateReturn(c)

Spec == Init /\ [][Next]_vars


\* every wait of a call is answered in the end, and its continuation runs
CreateProgress ==
    \E c \in CallIds :
        \/ \E answer \in {"ok", "rejected"} : SubmitResolve(c, answer)
        \/ \E answer \in {"ok", "waitFailed"} : WaitResolve(c, answer)
        \/ \E b \in {"eoa", "sa"} : ProbeResolve(c, b, "no")
        \/ \E b \in {"eoa", "sa"} : ProbeResolve(c, b, "threw")
        \/ \E b \in {"eoa", "sa"} : ProbeResolve(c, b, "yes")
        \/ \E b \in {"eoa", "sa"} : EncryptResolve(c, b, "failed")
        \/ \E b \in {"eoa", "sa"} : EncryptResolve(c, b, "ok")
        \/ CreateJoin(c)
        \/ CreateReturn(c)
SpecFair == Spec /\ WF_vars(CreateProgress)

(***************************************************************************)
(* Two create calls in flight together                                     *)
(***************************************************************************)
\* two calls of create, their awaits interleaved in any order
PairIds == {1, 2}

\* what the two callers pass: no private key of their own, ECIES wanted, and a
\* full protection on a supported chain
PairProtection == Protection("ok", "ok", 421614, "ok")
\* the kid a call may draw: the first call draws the first, the second the
\* same one or another
PairKids(c) == IF c = 1 THEN {1} ELSE Kids

InitPair ==
    /\ authorizedProcessors = <<>>
    /\ svcStarted = FALSE
    /\ produced = [s \in Slots |-> NoRun]
    /\ out = NoOut
    /\ vIn = <<>>
    /\ vOut = NoValidation
    /\ cr = [c \in PairIds |-> NoCreate]
    /\ events = <<>>
    /\ litHeap = <<>>
    /\ litTemplate = <<>>
    /\ litOut = NoSubst
    /\ cronCreated = FALSE
    /\ jobs = <<>>
    /\ wrappers = [name \in JobNames |-> NoWrapper]
    /\ ticks = <<>>
    /\ cronOp = NoCronOp

NextPair ==
    \/ Started(Pk(1, TRUE)) /\ UNCHANGED <<cronVars, wrapVars, valVars, crVars, subVars>>
    \/ \E c \in PairIds :
            \E id \in PairKids(c) : CreateStart(c, 1, id, NoPk, FALSE, PairProtection)
    \/ \E c \in PairIds : SubmitResolve(c, "ok")
    \/ \E c \in PairIds : WaitResolve(c, "ok")
    \/ \E b \in {"eoa", "sa"}, answer \in {"yes", "no"} :
            \E c \in PairIds : ProbeResolve(c, b, answer)
    \/ \E b \in {"eoa", "sa"} : \E c \in PairIds : EncryptResolve(c, b, "ok")
    \/ \E c \in PairIds : CreateJoin(c)
    \/ \E c \in PairIds : CreateReturn(c)

SpecPair == InitPair /\ [][NextPair]_vars

(***************************************************************************)
(* The life of the cron mixin: created, then calls and ticks in any order  *)
(***************************************************************************)
\* the calls and ticks followed
MaxCronOps == 6

\* settings.cronJobs: an automatic job with hooks and an onComplete, and a
\* manual one run on init; or a manual job, a second config with its name and
\* a config without a name
CronSettings ==
    { <<CronJob("a", FALSE, TRUE, TRUE, FALSE), CronJob("b", TRUE, FALSE, FALSE, TRUE)>>,
      <<CronJob("a", TRUE, TRUE, TRUE, FALSE), CronJob("a", FALSE, FALSE, FALSE, FALSE),
        NoJob>> }

\* the call numbered next
cronCall(op, name, outcome, ret) ==
    [n |-> cronOp.n + 1, op |-> op, name |-> name, outcome |-> outcome, ret |-> ret]

\* created, lines 47-50
CronCreated(cronJobs) ==
    /\ ~cronCreated
    /\ cronCreated' = TRUE
    /\ LET st == validateAndCreateJobs(
                    [jobs |-> <<>>, wrappers |-> wrappers, threw |-> FALSE], cronJobs)
       IN  jobs' = st.jobs /\ wrappers' = st.wrappers
    /\ cronOp' = cronCall("created", "", "", "")
    /\ UNCHANGED <<ticks, svcVars, wrapVars, valVars, crVars, subVars>>

\* started, lines 52-55; hook is what the onStart of a job does when called
CronStarted(hook) ==
    /\ cronCreated /\ cronOp.n < MaxCronOps
    /\ wrappers' = startJobs(wrappers, jobs)
    /\ cronOp' = cronCall("started", "", hook, "")
    /\ UNCHANGED <<cronCreated, jobs, ticks, svcVars, wrapVars, valVars, crVars, subVars>>

\* stopped, lines 57-71
CronStopped(hook) ==
    /\ cronCreated /\ cronOp.n < MaxCronOps
    /\ wrappers' = stopJobs(wrappers, jobs)
    /\ jobs' = <<>>
    /\ cronOp' = cronCall("stopped", "", hook, "")
    /\ UNCHANGED <<cronCreated, ticks, svcVars, wrapVars, valVars, crVars, subVars>>

\* startJob, lines 275-284
StartJob(name, hook) ==
    /\ cronCreated /\ cronOp.n < MaxCronOps
    /\ wrappers' = IF hasJob(jobs, name)
                   THEN [wrappers EXCEPT ![name] = wrapperStart(@)] ELSE wrappers
    /\ cronOp' = cronCall("startJob", name, hook,
                          IF hasJob(jobs, name) THEN "true" ELSE "false")
    /\ UNCHANGED <<cronCreated, jobs, ticks, svcVars, wrapVars, valVars, crVars, subVars>>

\* stopJob, lines 289-297
StopJob(name, hook) ==
    /\ cronCreated /\ cronOp.n < MaxCronOps
    /\ wrappers' = IF hasJob(jobs, name)
                   THEN [wrappers EXCEPT ![name] = wrapperStop(@)] ELSE wrappers
    /\ cronOp' = cronCall("stopJob", name, hook,
                          IF hasJob(jobs, name) THEN "true" ELSE "false")
    /\ UNCHANGED <<cronCreated, jobs, ticks, svcVars, wrapVars, valVars, crVars, subVars>>

\* destroyJob, lines 302-312
DestroyJob(name) ==
    /\ cronCreated /\ cronOp.n < MaxCronOps
    /\ wrappers' = IF hasJob(jobs, name)
                   THEN [wrappers EXCEPT ![name] = wrapperDestroy(@)] ELSE wrappers
    /\ jobs' = SelectSeq(jobs, LAMBDA j : j # name)
    /\ cronOp' = cronCall("destroyJob", name, "",
                          IF hasJob(jobs, name) THEN "true" ELSE "false")
    /\ UNCHANGED <<cronCreated, ticks, svcVars, wrapVars, valVars, crVars, subVars>>

\* the callback of wrapOnTick up to its first await, lines 216-227: the task
\* scheduled for name fires, whatever has become of the job since.  onTick
\* throws at once, or gives a promise that is awaited.
Tick(name, outcome) ==
    /\ wrappers[name].made /\ cronOp.n < MaxCronOps
    /\ IF ~hasJob(jobs, name)
       THEN /\ cronOp' = cronCall("tick", name, "", wrapOnTick("ok"))
            /\ UNCHANGED <<wrappers, ticks>>
       ELSE /\ wrappers' = [wrappers EXCEPT ![name].executionCount = @ + 1,
                                            ![name].log = Append(@, "onTick")]
            /\ ticks' = IF outcome = "throws" THEN ticks
                        ELSE Append(ticks, [name |-> name, at |-> "onTick"])
            /\ cronOp' = cronCall("tick", name, outcome,
                                  IF outcome = "throws" THEN wrapOnTick(outcome)
                                  ELSE "pending")
    /\ UNCHANGED <<cronCreated, jobs, svcVars, wrapVars, valVars, crVars, subVars>>

\* wrapOnTick, lines 227-237: the promise of onTick settles.  Fulfilled, the
\* job's onComplete, if it has one, is called through wrapOnComplete and
\* awaited.
OnTickSettle(i, outcome) ==
    /\ i \in 1..Len(ticks) /\ ticks[i].at = "onTick"
    /\ LET name == ticks[i].name
           completes == outcome = "ok" /\ wrappers[name].config.onComplete
       IN  /\ wrappers' = IF completes
                          THEN [wrappers EXCEPT ![name].log = Append(@, "onComplete")]
                          ELSE wrappers
           /\ ticks' = IF completes THEN [ticks EXCEPT ![i].at = "onComplete"]
                       ELSE RemoveAt(ticks, i)
           /\ cronOp' = cronCall("onTickEnd", name, outcome,
                                 IF completes THEN "pending" ELSE wrapOnTick(outcome))
    /\ UNCHANGED <<cronCreated, jobs, svcVars, wrapVars, valVars, crVars, subVars>>

\* wrapOnComplete, lines 247-252, then the end of wrapOnTick: the promise of
\* onComplete settles
OnCompleteSettle(i, outcome) ==
    /\ i \in 1..Len(ticks) /\ ticks[i].at = "onComplete"
    /\ ticks' = RemoveAt(ticks, i)
    /\ cronOp' = cronCall("onCompleteEnd", ticks[i].name, outcome,
                          wrapOnTick(wrapOnComplete(outcome)))
    /\ UNCHANGED <<cronCreated, jobs, wrappers, svcVars, wrapVars, valVars, crVars, subVars>>

NextCron ==
    \/ \E cronJobs \in CronSettings : CronCreated(cronJobs)
    \/ \E hook \in {"ok", "throws"} : CronStarted(hook)
    \/ \E hook \in {"ok", "throws"} : CronStopped(hook)
    \/ \E name \in JobNames, hook \in {"ok", "throws"} : StartJob(name, hook)
    \/ \E name \in JobNames, hook \in {"ok", "throws"} : StopJob(name, hook)
    \/ \E name \in JobNames : DestroyJob(name)
    \/ \E name \in JobNames, outcome \in {"pending", "throws"} : Tick(name, outcome)
    \/ \E i \in 1..MaxCronOps, outcome \in {"ok", "rejects"} : OnTickSettle(i, outcome)
    \/ \E i \in 1..MaxCronOps, outcome \in {"ok", "rejects"} : OnCompleteSettle(i, outcome)

SpecCron == Init /\ [][NextCron]_vars

(***************************************************************************)
(* Properties of create                                                    *)
(***************************************************************************)
Settled(c)   == \A b \in Encoders : cr[c].br[b].at = "done"
Ended(c)     == cr[c].pc \in {"emitted", "returned", "failed"}
Succeeded(c) == {b \in Encoders : cr[c].br[b].outcome = "ok"}
Failed(c)    == {b \in Encoders : cr[c].br[b].outcome = "failed"}
ByOf(list)   == {list[i].by : i \in 1..Len(list)}
EmittedFor(c) ==
    \E i \in 1..Len(events) :
        events[i].kid = cr[c].kid /\ events[i].data = cr[c].psshInputs

\* C1: create fails with NO_ENCODING_PERFORMED exactly when, every launched
\* branch having settled, the result list is empty (so in particular when all
\* three encoders failed); in every other case it raises nothing and returns
\* the accumulated list, which holds the result of each encoder that succeeded.
C1_NoEncodingExactlyWhenEmpty ==
    \A c \in CallIds :
        /\ Ended(c) => Settled(c)
        /\ Ended(c) => (cr[c].pc = "failed" <=> cr[c].psshInputs = <<>>)
        /\ cr[c].pc = "failed" <=> cr[c].err = "NO_ENCODING_PERFORMED"
        /\ cr[c].err \in {"", "NO_ENCODING_PERFORMED"}
        /\ Failed(c) = Encoders => cr[c].pc \in {"running", "failed"}
        /\ cr[c].pc \in {"emitted", "returned"} =>
              /\ ByOf(cr[c].psshInputs) = Succeeded(c)
              /\ Len(cr[c].psshInputs) = Cardinality(Succeeded(c))
              /\ EmittedFor(c)
        /\ cr[c].pc = "returned" => cr[c].ret = cr[c].psshInputs
        /\ cr[c].pc # "returned" => cr[c].ret = <<>>

\* all three encoders were launched, all three failed, and the call failed
C1_Witness ==
    \E c \in CallIds :
        cr[c].pc = "failed" /\ Failed(c) = Encoders /\ cr[c].err = "NO_ENCODING_PERFORMED"

\* a step in which branch b of call c fails
BranchFails(c, b) ==
    cr[c].br[b].outcome # "failed" /\ cr'[c].br[b].outcome = "failed"

\* C2: a failure of one encoder branch stays in that branch.  The step in
\* which a branch fails neither ends the call nor raises, and, the call
\* running, leaves every other branch and the result list as they were; the
\* call ends only when every branch has; after a failure every branch still
\* reaches its end; and no error but NO_ENCODING_PERFORMED is ever raised.
C2_BranchFailureStaysLocal ==
    /\ [](\A c \in CallIds :
            /\ Ended(c) => Settled(c)
            /\ cr[c].err \in {"", "NO_ENCODING_PERFORMED"}
            /\ cr[c].err # "" => cr[c].psshInputs = <<>> /\ Settled(c))
    /\ [][\A c \in CallIds, b \in Encoders :
            BranchFails(c, b) =>
                /\ cr'[c].pc = "running"
                /\ cr'[c].err = ""
                /\ cr[c].pc = "running" =>
                      /\ \A o \in Encoders \ {b} : cr'[c].br[o] = cr[c].br[o]
                      /\ cr'[c].psshInputs = cr[c].psshInputs]_vars
    /\ \A c \in CallIds, b \in Encoders :
            (cr[c].br[b].outcome = "failed") ~> (Settled(c) /\ Ended(c))

\* two branches failed, the third gave its result all the same, and the call
\* returned that one result
C2_Witness ==
    \E c \in CallIds :
        /\ cr[c].br["ecies"].outcome = "failed"
        /\ cr[c].br["eoa"].outcome = "failed"
        /\ cr[c].br["sa"].outcome = "ok"
        /\ cr[c].pc = "returned"
        /\ ByOf(cr[c].ret) = {"sa"}

\* C3: when exactly one of the three encoders fails and the other two
\* succeed, create raises nothing and returns exactly two results, one from
\* each encoder that succeeded.
C3_OneFailureTwoResults ==
    \A c \in CallIds :
        (Settled(c) /\ Cardinality(Failed(c)) = 1 /\ Cardinality(Succeeded(c)) = 2) =>
            /\ cr[c].pc \in {"running", "emitted", "returned"}
            /\ cr[c].err = ""
            /\ Len(cr[c].psshInputs) = 2
            /\ ByOf(cr[c].psshInputs) = Succeeded(c)
            /\ cr[c].pc = "returned" => cr[c].ret = cr[c].psshInputs

\* the Lit EOA encoder failed, and the other two gave their results with the
\* later-started branch first
C3_Witness ==
    \E c \in CallIds :
        /\ cr[c].pc = "returned"
        /\ Failed(c) = {"eoa"}
        /\ Len(cr[c].ret) = 2
        /\ cr[c].ret[1].by = "sa"
        /\ cr[c].ret[2].by = "ecies"


(***************************************************************************)
(* Properties of validateParameters and safeReplaceParameters              *)
(***************************************************************************)
\* the pattern a key name requires of its value
RequiredOf(key, text) ==
    IF key = K_chain THEN MatchesChain(text)
    ELSE IF key = K_authority \/ key = K_userAddress THEN MatchesHex(text, 40)
    ELSE IF key = K_kid THEN MatchesHex(text, 32)
    ELSE IF key = K_rpc THEN MatchesRpc(text)
    ELSE \A i \in 1..Len(text) : text[i] \notin {"\"", "'", "\\"}
Conforms(parameters) ==
    \A i \in 1..Len(parameters) :
        /\ MatchesKey(parameters[i].key)
        /\ RequiredOf(parameters[i].key, JsString(parameters[i].value))

MaxSubstCalls == 2

\* a template with leaves of every kind: a number, a string with a placeholder
\* twice, placeholders inside longer strings, an array in an object in an array
GenericTemplate ==
    << ObjNode(<<"deep">>, <<StrVal(<<":", "r", "p", "c", "/", ":", "u", "s", "e", "r", "A", "d", "d", "r", "e", "s", "s">>)>>),
       ArrNode(<<StrVal(P_chain), OtherVal(7), RefVal(1)>>),
       ObjNode(<<"count", "both", "list">>,
               <<OtherVal(0), StrVal(P_kid \o <<"-">> \o P_kid), RefVal(2)>>),
       ArrNode(<<RefVal(3), StrVal(<<"x", ":", "c", "h", "a", "i", "n", "I", "d">>)>>),
       ObjNode(<<"unifiedAccessControlConditions">>, <<RefVal(4)>>) >>
Templates ==
    {accessControlsTemplate(LitEncoderEOA), accessControlsTemplate(LitEncoderSA),
     GenericTemplate}

\* rpc values: a plain URL, URLs that hold a dollar sign or the name of
\* another placeholder, and a text that is no URL
RpcValues ==
    {RpcText, <<"h", "t", "t", "p", "s", ":", "/", "/", "$", "&">>, <<"h", "t", "t", "p", "s", ":", "/", "/", "$", "$">>, <<"h", "t", "t", "p", "s", ":", "/", "/", ":", "c", "h", "a", "i", "n">>, <<"f", "t", "p", ":", "/", "/", "r">>}
\* the parameters of a call, in the order buildAccessControls gives them, with
\* or without a userAddress
SubstParameters ==
    {<<Entry(K_kid, TextValue(KidText(1))), Entry(K_authority, TextValue(au)),
       Entry(K_ledger, TextValue(AddressText)), Entry(K_chainId, NumValue(ch)),
       Entry(K_rpc, TextValue(rp)), Entry(K_chain, TextValue(getChainName(ch))),
       Entry(K_actionIpfsId, TextValue(LitEncoderEOA.actionIpfsId))>> \o more :
        au \in {AddressText, <<>>}, ch \in {20, 421614}, rp \in RpcValues,
        more \in {<<>>, <<Entry(K_userAddress, TextValue(AddressText))>>}}

\* the constructor
Construct(template) ==
    /\ litHeap = <<>>
    /\ litHeap' = template
    /\ litTemplate' = template
    /\ UNCHANGED <<cronVars, litOut, svcVars, wrapVars, valVars, crVars>>

\* one call of replaceConditionsParameters on the template's condition list.
\* The call is synchronous: calls on one encoder follow one another.
SubstCall(parameters) ==
    /\ litHeap # <<>>
    /\ ~litOut.ran
    /\ litOut.calls < MaxSubstCalls
    /\ LET r == replaceConditionsParameters(litHeap,
                    litHeap[Len(litTemplate)].items[1], parameters)
       IN  /\ litHeap' = r.h
           /\ litOut' = [ran |-> TRUE, parameters |-> parameters, ok |-> r.ok,
                         err |-> r.err, validated |-> r.validated, v |-> r.v,
                         calls |-> litOut.calls + 1]
    /\ UNCHANGED <<cronVars, litTemplate, svcVars, wrapVars, valVars, crVars>>

\* the caller is done with the structure it was given, which is collected
SubstRead ==
    /\ litOut.ran
    /\ litOut' = [NoSubst EXCEPT !.calls = litOut.calls]
    /\ litHeap' = SubSeq(litHeap, 1, Len(litTemplate))
    /\ UNCHANGED <<cronVars, litTemplate, svcVars, wrapVars, valVars, crVars>>

NextSubst ==
    \/ \E template \in Templates : Construct(template)
    \/ \E parameters \in SubstParameters : SubstCall(parameters)
    \/ SubstRead

SpecSubst == Init /\ [][NextSubst]_vars


\* the leaves of a value, in order
RECURSIVE Leaves(_, _)
RECURSIVE LeavesOfItems(_, _)
Leaves(h, v) == IF v.k = "ref" THEN LeavesOfItems(h, h[v.n].items) ELSE <<v>>
LeavesOfItems(h, items) ==
    IF items = <<>> THEN <<>>
    ELSE Leaves(h, Head(items)) \o LeavesOfItems(h, Tail(items))

\* the nodes a value reaches
RECURSIVE Reach(_, _)
Reach(h, v) ==
    IF v.k = "ref"
    THEN {v.n} \cup UNION {Reach(h, h[v.n].items[i]) : i \in 1..Len(h[v.n].items)}
    ELSE {}

TemplateConditions == litTemplate[Len(litTemplate)].items[1]
TemplateLeaves     == Leaves(litTemplate, TemplateConditions)
MadeLeaves         == Leaves(litHeap, litOut.v)
\* a colon followed by a letter
HasPlaceholder(t)  == \E i \in 1..(Len(t) - 1) : t[i] = ":" /\ t[i + 1] \in Letters
FromEncoder        == litTemplate # GenericTemplate

\* C12 as stated: for parameters that conform to the table, validation
\* succeeds and no string of the structure made from an encoder's template
\* holds a placeholder token
C12_NoPlaceholderLeft ==
    (litOut.ran /\ FromEncoder /\ Conforms(litOut.parameters)) =>
        /\ litOut.ok
        /\ \A i \in 1..Len(MadeLeaves) :
              MadeLeaves[i].k = "str" => ~HasPlaceholder(MadeLeaves[i].s)

\* C13 as stated: a template leaf that is exactly the placeholder of a
\* validated parameter becomes exactly that parameter's value
C13_ExactLeafBecomesValue ==
    litOut.ok =>
        \A i \in 1..Len(TemplateLeaves), j \in 1..Len(litOut.validated) :
            TemplateLeaves[i] = StrVal(<<":">> \o litOut.validated[j].key)
                => MadeLeaves[i] = StrVal(litOut.validated[j].value)

\* whether the structure made has the shape of the template: arrays for
\* arrays and objects for objects, of the same keys, lengths and order; every
\* leaf that is no string the same; every string without an occurrence of a
\* parameter's placeholder the same
RECURSIVE SameShape(_, _, _, _, _)
SameShape(h1, v1, h2, v2, validated) ==
    IF v1.k = "ref"
    THEN /\ v2.k = "ref"
         /\ h2[v2.n].t = h1[v1.n].t
         /\ h2[v2.n].keys = h1[v1.n].keys
         /\ Len(h2[v2.n].items) = Len(h1[v1.n].items)
         /\ \A i \in 1..Len(h1[v1.n].items) :
                SameShape(h1, h1[v1.n].items[i], h2, h2[v2.n].items[i], validated)
    ELSE IF v1.k = "other" THEN v2 = v1
    ELSE /\ v2.k = "str"
         /\ (\A j \in 1..Len(validated), i \in 1..Len(v1.s) :
                ~OccursAt(v1.s, i, <<":">> \o validated[j].key))
              => v2.s = v1.s

C15_TemplateNeverMutated ==
    /\ litHeap # <<>> =>
          /\ Len(litHeap) >= Len(litTemplate)
          /\ SubSeq(litHeap, 1, Len(litTemplate)) = litTemplate
    /\ litOut.ok => Reach(litHeap, litOut.v) \cap (1..Len(litTemplate)) = {}

\* a second call on the same encoder has made its structure
C15_Witness ==
    /\ litOut.ok
    /\ litOut.calls = 2
    /\ FromEncoder
    /\ Reach(litHeap, litOut.v) # {}

(***************************************************************************)
(* Properties of the encoders inside create                                *)
(***************************************************************************)
LitEncoders == {"eoa", "sa"}
Probed(c) ==
    /\ cr[c].protocolParameters.present
    /\ Truthy(cr[c].protocolParameters.authority)
    /\ Truthy(cr[c].protocolParameters.rpc)

\* C16: in an access-controlled encoder given both an authority and an rpc,
\* the support probe is the first thing done: while it is unanswered nothing
\* has been built or sent, and past it the first outside call is the probe.
\* A probe that threw or answered false ends encode with the "does not
\* support the Lit Protocol, will be skipped" error, the access controls
\* never built and the encryption provider never called.
C16_ProbeFirstAndFailFast ==
    \A c \in CallIds, b \in LitEncoders :
        LET br == cr[c].br[b]
        IN  (br.launched /\ Probed(c)) =>
                /\ br.at = "probe" => br.calls = <<>> /\ ~br.built
                /\ br.at # "probe" =>
                      /\ br.calls # <<>>
                      /\ br.calls[1].op = "supportsLitProtocol"
                      /\ br.calls[1].answer # "yes" =>
                            /\ br.at = "done" /\ br.outcome = "failed"
                            /\ br.err = UnsupportedAuthority
                            /\ ~br.built
                            /\ Len(br.calls) = 1
                            /\ b \notin ByOf(cr[c].psshInputs)

\* one encoder's probe threw and the other's answered false; both failed on
\* the spot
C16_Witness ==
    \E c \in CallIds :
        /\ cr[c].br["eoa"].calls = <<[op |-> "supportsLitProtocol", answer |-> "threw"]>>
        /\ cr[c].br["sa"].calls = <<[op |-> "supportsLitProtocol", answer |-> "no"]>>
        /\ cr[c].br["eoa"].err = UnsupportedAuthority
        /\ cr[c].br["sa"].err = UnsupportedAuthority

\* C17: the ECIES encoder, given a protection, gives a result only when the
\* registration succeeded, its submission accepted and its confirmation had.
C17_RegistrationRequired ==
    \A c \in CallIds :
        LET br == cr[c].br["ecies"]
        IN  (br.launched /\ cr[c].protocolParameters.present /\ br.outcome = "ok") =>
                br.calls = <<[op |-> "register", answer |-> "ok"],
                             [op |-> "wait", answer |-> "ok"]>>

C19_OneEventPerReturn ==
    \A c \in CallIds :
        cr[c].pc = "returned" =>
            LET mine == {i \in 1..Len(events) : events[i].kid = cr[c].kid}
            IN  /\ Cardinality(mine) = 1
                /\ \A i \in mine : events[i].data = cr[c].ret

\* a call returned three results, and they are the data of its event
C19_Witness ==
    \E c \in CallIds :
        /\ cr[c].pc = "returned"
        /\ Len(cr[c].ret) = 3
        /\ Len(events) = 1 /\ events[1].data = cr[c].ret

\* the result an encoder pushed
ResultOf(c, b) ==
    cr[c].psshInputs[CHOOSE i \in 1..Len(cr[c].psshInputs) : cr[c].psshInputs[i].by = b]

\* two strings of the conditions are the same, or are the two profiles' action
\* identifiers, or their access-check script addresses
SameButProfile(x, y) ==
    \/ x = y
    \/ /\ x = StrVal(LitEncoderEOA.actionIpfsId)
       /\ y = StrVal(LitEncoderSA.actionIpfsId)
    \/ /\ x = StrVal(S_ipfs \o LitEncoderEOA.accessCheckIpfsId)
       /\ y = StrVal(S_ipfs \o LitEncoderSA.accessCheckIpfsId)

\* two access controls differ in nothing but those strings
SameConditions(a, b) ==
    /\ a.v = b.v
    /\ Len(a.h) = Len(b.h)
    /\ \A n \in 1..Len(a.h) :
            /\ a.h[n].t = b.h[n].t
            /\ a.h[n].keys = b.h[n].keys
            /\ Len(a.h[n].items) = Len(b.h[n].items)
            /\ \A i \in 1..Len(a.h[n].items) :
                    SameButProfile(a.h[n].items[i], b.h[n].items[i])

\* C20: the EOA and the smart-account encoder of a call, given the same key
\* and protection, and answered alike by the probe and by the encryption
\* provider, have made the same outside calls, stand at the same point, have
\* succeeded or failed alike with the same error, and their results are the
\* same but for systemId, the protection type, actionIpfsId and the strings of
\* the conditions that hold a script identifier.
C20_EncodersDifferOnlyInProfile ==
    \A c \in CallIds :
        LET e == cr[c].br["eoa"]
            s == cr[c].br["sa"]
        IN  (/\ cr[c].pc # "idle"
             /\ Len(e.calls) = Len(s.calls)
             /\ \A i \in 1..Len(e.calls) : e.calls[i].answer = s.calls[i].answer) =>
                /\ e.cek = s.cek
                /\ e.calls = s.calls
                /\ e.at = s.at /\ e.outcome = s.outcome /\ e.err = s.err
                /\ e.built = s.built
                /\ e.outcome = "ok" =>
                      LET re == ResultOf(c, "eoa")
                          rs == ResultOf(c, "sa")
                      IN  /\ re.keystore = rs.keystore
                          /\ re.systemId = LitEncoderEOA.keySystemId
                          /\ rs.systemId = LitEncoderSA.keySystemId
                          /\ re.protectionData.protectionType = LitEncoderEOA.protectionType
                          /\ rs.protectionData.protectionType = LitEncoderSA.protectionType
                          /\ re.protectionData.network = rs.protectionData.network
                          /\ re.protectionData.variant = rs.protectionData.variant
                          /\ re.protectionData.data.actionIpfsId = LitEncoderEOA.actionIpfsId
                          /\ rs.protectionData.data.actionIpfsId = LitEncoderSA.actionIpfsId
                          /\ \A f \in {"ciphertext", "hash", "rpc", "authority", "chainId",
                                        "chain"} :
                                re.protectionData.data[f] = rs.protectionData.data[f]
                          /\ SameConditions(re.protectionData.data.accessControls,
                                            rs.protectionData.data.accessControls)

\* both encoders were probed and answered, and both gave a result, whose
\* conditions are not the same
C20_Witness ==
    \E c \in CallIds :
        /\ Len(cr[c].br["eoa"].calls) = 2 /\ cr[c].br["eoa"].outcome = "ok"
        /\ Len(cr[c].br["sa"].calls) = 2 /\ cr[c].br["sa"].outcome = "ok"
        /\ ResultOf(c, "eoa").protectionData.data.accessControls
             # ResultOf(c, "sa").protectionData.data.accessControls

(***************************************************************************)
(* Properties of what the encoders are given and give back                 *)
(***************************************************************************)
\* the results of the access-controlled encoders of a call
LitResults(c) ==
    {cr[c].psshInputs[i] : i \in {j \in 1..Len(cr[c].psshInputs) :
                                    cr[c].psshInputs[j].by \in LitEncoders}}

\* the condition objects of a result's access controls
ConditionsOf(r) ==
    LET ac == r.protectionData.data.accessControls
    IN  {ac.h[n] : n \in {m \in Reach(ac.h, ac.v) : ac.h[m].keys = ConditionKeys}}

ChainIdsTried == {0, 1, 20, 137, 8453, 421614, 999999}
Ethereum == <<"e", "t", "h", "e", "r", "e", "u", "m">>
ChainLabel(id) ==
    CASE id = 421614 ->
            <<"a", "r", "b", "i", "t", "r", "u", "m", "S", "e", "p", "o", "l", "i", "a">>
      [] id = 8453 -> <<"b", "a", "s", "e">>
      [] OTHER -> Ethereum

OnlyCiphertext(s) == \A i \in 1..Len(s) : s[i].t \in {"0x", "rsv", "cipher", "lit"}

\* an EncodingResult holds the key under encryption and nowhere else: its
\* fields are those of the type, the keystore is ciphertext, and the data of
\* protectionData are the public key and the protection (ECIES), or the
\* ciphertext, its hash, the conditions and the protection's fields (Lit)
Sealed(r) ==
    /\ DOMAIN r = {"by", "keystore", "systemId", "protectionData"}
    /\ OnlyCiphertext(r.keystore)
    /\ IF r.by = "ecies"
       THEN /\ DOMAIN r.protectionData =
                    {"protectionType", "variant", "ciphersuite", "data"}
            /\ DOMAIN r.protectionData.data = {"publicKey", "protection"}
       ELSE /\ DOMAIN r.protectionData = {"network", "protectionType", "variant", "data"}
            /\ DOMAIN r.protectionData.data =
                    {"ciphertext", "hash", "accessControls", "rpc", "authority",
                     "actionIpfsId", "chainId", "chain"}
            /\ OnlyCiphertext(r.protectionData.data.ciphertext)
            /\ DOMAIN r.protectionData.data.hash = {"sha256"}
            /\ DOMAIN r.protectionData.data.accessControls = {"h", "v"}

\* what the ECIES branch of a call hands to registerIPWithKey
Registered(c) ==
    ECIESEncode(eciesParameters(cr[c]), cr[c].key, cr[c].protocolParameters, "ok", c).call

\* C22: the key in the clear reaches nothing that keeps or publishes it.  The
\* keystore.created event holds the kid and the results only, every result
\* pushed or emitted holds the key under encryption only, and the keystore
\* handed to the ledger registration is the signature and the ciphertext.
C22_KeyNeverPublished ==
    /\ \A i \in 1..Len(events) :
            /\ DOMAIN events[i] = {"kid", "data"}
            /\ \A j \in 1..Len(events[i].data) : Sealed(events[i].data[j])
    /\ \A c \in CallIds :
            /\ \A j \in 1..Len(cr[c].psshInputs) : Sealed(cr[c].psshInputs[j])
            /\ cr[c].br["ecies"].calls # <<>> =>
                    /\ DOMAIN Registered(c) = {"made", "ledger", "contentId", "ipKey"}
                    /\ Registered(c).contentId = cr[c].kid
                    /\ OnlyCiphertext(Registered(c).ipKey)

\* a call registered its ECIES keystore, all three encoders gave a result and
\* the event was emitted with the three
C22_Witness ==
    \E c \in CallIds :
        /\ Len(cr[c].br["ecies"].calls) = 2
        /\ Len(events) = 1 /\ Len(events[1].data) = 3
        /\ ByOf(cr[c].psshInputs) = Encoders

(***************************************************************************)
(* Properties of the service's state                                       *)
(***************************************************************************)
\* C23: once started() has run, no step of any call adds, removes or changes
\* an entry of the AuthorizedProcessor map; the map holds what started() put
\* there, one entry at most, and every unwrap and transfer reads that map.
C23_ProcessorsReadOnly ==
    /\ [](svcStarted => Len(authorizedProcessors) <= 1)
    /\ [][svcStarted =>
            /\ svcStarted'
            /\ authorizedProcessors' = authorizedProcessors]_vars

\* with a processor registered at start, an unwrap failed for an unknown
\* signer and, later, the caller holds an envelope a transfer made
C23_Witness ==
    /\ svcStarted
    /\ Len(authorizedProcessors) = 1
    /\ produced[2].made /\ produced[2].via = "transfer"
    /\ out.op = "unwrap" /\ ~out.u.ok

(***************************************************************************)
(* Properties of the branches of create among themselves                   *)
(***************************************************************************)
\* a call as it was given to its branches: its inputs, no branch begun
Inputs(c) ==
    [NoCreate EXCEPT !.salt = cr[c].salt, !.pk = cr[c].pk, !.skipEcies = cr[c].skipEcies,
                     !.protocolParameters = cr[c].protocolParameters,
                     !.kid = cr[c].kid, !.key = cr[c].key,
                     !.privateKey = cr[c].privateKey]

\* the result encoder b gives for those inputs, whatever the others do
OwnResult(c, b) ==
    IF b = "ecies"
    THEN ECIESResult(ECIESEncode(eciesParameters(Inputs(c)), cr[c].key,
                                 cr[c].protocolParameters, "ok", c))
    ELSE LitResult(b, LitProfile(b), cr[c].protocolParameters, cr[c].key, c,
                   LitAccessControls(b, Inputs(c)))

\* C24 as stated: the branches of a call share no variable that more than one
\* of them writes.  The result list is the one variable of the call that is
\* not a branch's own: it holds the writes of one branch at most.
C24_NoSharedState ==
    \A c \in CallIds : Cardinality(ByOf(cr[c].psshInputs)) <= 1

\* C24, amended: the result list is the only state the branches share.  A step
\* of a running call is the step of one branch: it leaves the other branches
\* as they were and the list as it was, or with that branch's result added at
\* its end; the join changes neither.  Every result in the list is the one
\* its encoder gives for the call's inputs alone, one at most per encoder.
C24_BranchesShareOnlyResultList ==
    /\ [](\A c \in CallIds :
            /\ Len(cr[c].psshInputs) = Cardinality(ByOf(cr[c].psshInputs))
            /\ \A i \in 1..Len(cr[c].psshInputs) :
                    /\ cr[c].br[cr[c].psshInputs[i].by].outcome = "ok"
                    /\ cr[c].psshInputs[i] = OwnResult(c, cr[c].psshInputs[i].by))
    /\ [][\A c \in CallIds :
            (cr[c].pc = "running" /\ cr'[c] # cr[c]) =>
                IF cr'[c].pc = "running"
                THEN \E b \in Encoders :
                        /\ cr[c].br[b].at # "done"
                        /\ \A o \in Encoders \ {b} : cr'[c].br[o] = cr[c].br[o]
                        /\ \/ cr'[c].psshInputs = cr[c].psshInputs
                           \/ /\ cr'[c].psshInputs =
                                    Append(cr[c].psshInputs, OwnResult(c, b))
                              /\ cr'[c].br[b].outcome = "ok"
                ELSE /\ Settled(c)
                     /\ cr'[c].br = cr[c].br
                     /\ cr'[c].psshInputs = cr[c].psshInputs]_vars

\* the last encoder launched gave its result first and the first one after
\* it: the list holds the writes of two branches, in the order they ended
C24_Witness ==
    \E c \in CallIds :
        /\ Len(cr[c].psshInputs) >= 2
        /\ cr[c].psshInputs[1].by = "sa"
        /\ cr[c].psshInputs[2].by = "ecies"

\* C25: no encoder changes the protection it is given.  In create the three
\* encoders are given the caller's descriptor, field for field; whatever an
\* encoder does afterwards, succeeding or failing, the descriptor it holds
\* and the caller's stay as they were, and the protection a result shows is
\* the caller's.
C25_ProtectionNeverMutated ==
    /\ [](\A c \in CallIds :
            /\ \A b \in Encoders :
                    cr[c].br[b].launched =>
                        cr[c].br[b].protection = cr[c].protocolParameters
            /\ \A i \in 1..Len(cr[c].psshInputs) :
                    LET r == cr[c].psshInputs[i]
                    IN  IF r.by = "ecies"
                        THEN cr[c].protocolParameters.present =>
                                r.protectionData.data.protection = cr[c].protocolParameters
                        ELSE /\ r.protectionData.data.rpc = cr[c].protocolParameters.rpc
                             /\ r.protectionData.data.authority =
                                    cr[c].protocolParameters.authority
                             /\ r.protectionData.data.chainId =
                                    cr[c].protocolParameters.chainId)
    /\ [][\A c \in CallIds :
            cr[c].pc # "idle" =>
                /\ cr'[c].protocolParameters = cr[c].protocolParameters
                /\ \A b \in Encoders :
                        cr[c].br[b].launched =>
                            cr'[c].br[b].protection = cr[c].br[b].protection]_vars

\* given a protection without authority, the ECIES encoder failed to register
\* and both access-controlled encoders refused the parameters; all three
\* still hold the protection as the caller made it
C25_Witness ==
    \E c \in CallIds :
        /\ cr[c].protocolParameters.present
        /\ cr[c].protocolParameters.authority = "absent"
        /\ \A b \in Encoders :
                /\ cr[c].br[b].launched /\ cr[c].br[b].outcome = "failed"
                /\ cr[c].br[b].protection = cr[c].protocolParameters

(***************************************************************************)
(* Properties of the order of the steps of create                          *)
(***************************************************************************)
ProbeYes   == [op |-> "supportsLitProtocol", answer |-> "yes"]
EncryptOk  == [op |-> "encryptString", answer |-> "ok"]
EncryptsAt(c, b) ==
    {i \in 1..Len(cr[c].br[b].calls) : cr[c].br[b].calls[i].op = "encryptString"}

\* C26: an access-controlled encoder calls the encryption provider, and so
\* gives a result, only after a support probe that answered true.  Whatever
\* the protection, a protection without authority or rpc included: an encoder
\* waiting for the provider has made exactly one outside call, the probe
\* answered true; a call of the provider in its log comes second, after that
\* probe; and a result of its own in the list means the log is the probe
\* answered true, then the encryption.  An encoder that skipped the probe
\* has failed with nothing sent outside.
C26_NoEncryptionWithoutProbe ==
    \A c \in CallIds, b \in LitEncoders :
        LET br == cr[c].br[b]
        IN  /\ br.at = "encrypt" => br.calls = <<ProbeYes>>
            /\ \A i \in EncryptsAt(c, b) : i = 2 /\ br.calls[1] = ProbeYes
            /\ b \in ByOf(cr[c].psshInputs) => br.calls = <<ProbeYes, EncryptOk>>
            /\ (br.launched /\ ~Probed(c)) =>
                    /\ br.at = "done" /\ br.outcome = "failed"
                    /\ br.built /\ br.calls = <<>>

\* a call whose protection has an rpc and an empty authority: both
\* access-controlled encoders skipped the probe and failed on the address,
\* nothing sent outside
C26_Witness ==
    \E c \in CallIds :
        /\ cr[c].protocolParameters.present
        /\ cr[c].protocolParameters.authority = "empty"
        /\ cr[c].protocolParameters.rpc = "ok"
        /\ \A b \in LitEncoders :
                /\ cr[c].br[b].launched /\ cr[c].br[b].built
                /\ cr[c].br[b].calls = <<>>
                /\ cr[c].br[b].outcome = "failed"
                /\ cr[c].br[b].err = messageFor(K_authority)

EventsOf(c) == {i \in 1..Len(events) : events[i].kid = cr[c].kid}

\* C27: keystore.created is never emitted before all three branches of the
\* call have settled, and never by a call that fails with
\* NO_ENCODING_PERFORMED.  In every state, a call that has an event has all
\* its branches settled and has not failed, and a call that is still running
\* or has failed has none; in every step that emits, the event is that of a
\* call whose three branches were settled before the step, whose list was not
\* empty, and which does not fail.
C27_EventOnlyAfterAllSettled ==
    /\ [](\A c \in CallIds :
            /\ EventsOf(c) # {} =>
                    /\ Settled(c)
                    /\ cr[c].pc \in {"emitted", "returned"}
                    /\ cr[c].err # "NO_ENCODING_PERFORMED"
            /\ cr[c].pc \in {"idle", "running", "failed"} => EventsOf(c) = {})
    /\ [][events' # events =>
            \E c \in CallIds :
                /\ Settled(c) /\ cr[c].pc = "running"
                /\ cr[c].psshInputs # <<>>
                /\ events' = Append(events, createdEvent(cr[c]))
                /\ cr'[c].pc = "emitted" /\ cr'[c].err = ""]_vars

\* the event of a call whose only result came from the encoder that settled
\* last, the two others having failed
C27_Witness ==
    \E c \in CallIds :
        /\ cr[c].pc = "emitted" /\ Settled(c)
        /\ Failed(c) = {"ecies", "eoa"}
        /\ ByOf(cr[c].psshInputs) = {"sa"}
        /\ events = <<createdEvent(cr[c])>>

(***************************************************************************)
(* Properties of create calls in flight together                           *)
(***************************************************************************)
\* C28: under any interleaving of two concurrent calls, the list a call
\* returns and emits holds only results of that call's own branches for its
\* own kid and key, one at most per encoder and three at most; no result
\* crosses from a call to the other.  Every result in a call's list is the
\* one its encoder gives for that call's inputs, from a branch of that call
\* that succeeded; the lists of the two calls have no result in common; a
\* returned list is the call's list; every event carries the kid and the list
\* of a call that emitted; and a step of one call leaves the other call as it
\* was.
C28_NoResultCrossesCalls ==
    /\ [](\A c \in PairIds :
            LET list == cr[c].psshInputs
            IN  /\ Len(list) <= 3
                /\ Len(list) = Cardinality(ByOf(list))
                /\ \A i \in 1..Len(list) :
                        /\ cr[c].br[list[i].by].outcome = "ok"
                        /\ list[i] = OwnResult(c, list[i].by)
                /\ cr[c].pc = "returned" => cr[c].ret = list
                /\ cr[c].pc \in {"emitted", "returned"} =>
                        \E i \in 1..Len(events) : events[i] = createdEvent(cr[c])
                /\ \A d \in PairIds \ {c} :
                        \A i \in 1..Len(list), j \in 1..Len(cr[d].psshInputs) :
                            list[i] # cr[d].psshInputs[j])
    /\ [](\A i \in 1..Len(events) :
            \E c \in PairIds :
                /\ cr[c].pc \in {"emitted", "returned"}
                /\ events[i] = createdEvent(cr[c]))
    /\ [][\A c \in PairIds :
            cr'[c] # cr[c] => \A d \in PairIds \ {c} : cr'[d] = cr[d]]_vars

\* two calls that drew the same kid, so had the same key, their branches
\* ending in opposite orders: both returned three results, each its own
C28_Witness ==
    /\ cr[1].pc = "returned" /\ cr[2].pc = "returned"
    /\ cr[1].kid = cr[2].kid /\ cr[1].key = cr[2].key
    /\ Len(cr[1].ret) = 3 /\ Len(cr[2].ret) = 3
    /\ cr[1].ret[1].by = "ecies" /\ cr[2].ret[1].by = "sa"
    /\ Len(events) = 2

(***************************************************************************)
(* Properties of the cron mixin                                            *)
(***************************************************************************)
TaskCalls == {"task.start", "task.stop", "task.destroy"}
\* the last call a wrapper made on its task, "" when it made none
LastTaskCall(log) ==
    LET at == {i \in 1..Len(log) : log[i] \in TaskCalls}
    IN  IF at = {} THEN "" ELSE log[CHOOSE i \in at : \A j \in at : j <= i]
\* a call into the mixin has just been made
Called(op) == cronOp'.n = cronOp.n + 1 /\ cronOp'.op = op

\* C29: for every job wrapper, after any sequence of started, stopped,
\* startJob, stopJob and destroyJob, isRunning is true exactly when the last
\* call the wrapper made on its task was start, and a wrapper out of the Map
\* is not running.  startJob on a running job and stopJob on a job not
\* running change nothing: neither the task nor the hook is called.  started
\* leaves a manualStart job as it was, and starts every other job of the Map.
\* After stopped the Map is empty and no wrapper is running.
C29_RunningFollowsTask ==
    /\ [](\A name \in JobNames :
            LET w == wrappers[name]
            IN  /\ w.isRunning <=> LastTaskCall(w.log) = "task.start"
                /\ w.isRunning => w.made /\ hasJob(jobs, name)
                /\ hasJob(jobs, name) => w.made /\ LastTaskCall(w.log) # "task.destroy")
    /\ [][\A name \in JobNames :
            /\ (Called("startJob") /\ cronOp'.name = name /\ wrappers[name].isRunning)
                    => wrappers' = wrappers /\ jobs' = jobs
            /\ (Called("stopJob") /\ cronOp'.name = name /\ ~wrappers[name].isRunning)
                    => wrappers' = wrappers /\ jobs' = jobs
            /\ (Called("started") /\ hasJob(jobs, name)) =>
                    IF wrappers[name].config.manualStart
                    THEN wrappers'[name] = wrappers[name]
                    ELSE wrappers'[name].isRunning
            /\ Called("stopped") => jobs' = <<>> /\ ~wrappers'[name].isRunning]_vars

\* started has started the automatic job and left the manual one alone; the
\* automatic job has since been stopped, started again, and started once more
\* to no effect
C29_Witness ==
    /\ cronOp.op = "startJob" /\ cronOp.name = "a" /\ cronOp.n = 5
    /\ jobs = <<"a", "b">>
    /\ wrappers["a"].log =
            <<"task.start", "onStart", "task.stop", "onStop", "task.start", "onStart">>
    /\ wrappers["a"].isRunning
    /\ wrappers["b"].config.manualStart /\ ~wrappers["b"].isRunning

\* C30: no error of onTick or onComplete leaves a scheduled tick: the
\* callback never ends rejected.  A tick of a job of the Map adds exactly one
\* to that job's executionCount, whether onTick throws, rejects or succeeds,
\* and nothing else does; onComplete is called only when an onTick has just
\* been fulfilled; a tick for a job no longer in the Map changes no wrapper,
\* no awaited tick and not the Map.
C30_TickErrorsStayInside ==
    /\ [](cronOp.ret # "rejected")
    /\ [][\A name \in JobNames :
            LET w == wrappers[name]
                ticked == Called("tick") /\ cronOp'.name = name
            IN  /\ (ticked /\ hasJob(jobs, name)) =>
                        /\ wrappers'[name].executionCount = w.executionCount + 1
                        /\ cronOp'.outcome \in {"pending", "throws"}
                /\ (ticked /\ ~hasJob(jobs, name)) =>
                        wrappers' = wrappers /\ ticks' = ticks /\ jobs' = jobs
                /\ ~ticked => wrappers'[name].executionCount = w.executionCount
                /\ wrappers'[name].log # w.log /\ Len(wrappers'[name].log) > 0
                        /\ wrappers'[name].log[Len(wrappers'[name].log)] = "onComplete"
                    => /\ Called("onTickEnd") /\ cronOp'.name = name
                       /\ cronOp'.outcome = "ok"]_vars

\* a tick of a job was fulfilled, its onComplete called and awaited to its
\* end; then the job was destroyed and a second tick came, which left the
\* count at one
C30_Witness ==
    /\ wrappers["a"].executionCount = 1
    /\ wrappers["a"].log = <<"onTick", "onComplete", "task.destroy">>
    /\ ~hasJob(jobs, "a")
    /\ cronOp.op = "tick" /\ cronOp.name = "a" /\ cronOp.ret = "resolved"
    /\ ticks = <<>>

====
